---- MODULE Spec2Model ----
(***************************************************************************)
(* LLST generational memory manager (GenerationalMemoryManager) and the    *)
(* write barrier emitted by MethodCompiler::doAssignInstance.              *)
(*                                                                         *)
(* Values are machine words.  A word whose low bit is 1 is a tagged small  *)
(* integer, an even word is an address.  One machine word takes two        *)
(* address units, every object is a header word followed by one reference  *)
(* slot, so object o has its slot at address o + 2.                        *)
(*                                                                         *)
(* Address space of the model, low to high:                                *)
(*   static heap   [StaticBase, StaticTop)   nilObject, globalObject       *)
(*   heap one  H0  [m_heapOne, m_heapOne + HalfSize)        young          *)
(*   unowned memory of HalfSize units (what lies below heap two)           *)
(*   heap two  H1  [m_heapTwo, m_heapTwo + HalfSize)        old            *)
(* Both halves are filled downwards from their top by a bump pointer.      *)
(***************************************************************************)
EXTENDS Integers, Sequences, FiniteSets, TLC

\* ------------------------------------------------------------------ bounds
\* objects that fit into one half of the heap
HalfObjs == 2
\* registered external pointers (hptr<> handles of the mutator)
NumExternal == 2
\* width of a machine word in the integer conversions, in bits
WordBits == 8
\* instructions of a compiled method, a block with its body counted as one
MaxInstr == 3
\* arguments of a compiled method, self included
NumArguments == 2
\* temporaries of a context and instance variables of a receiver
NumSlots == 2
\* the largest offset a branch of the methods considered aims at
MaxTarget == 4
\* longest crossgen list the API-level specification lets direct calls build
MaxCrossgen == 2
\* contexts created in one run of the compiled code, and blocks created
MaxContexts == 4
MaxBlocks == 2
\* entries of the method cache (LOOKUP_CACHE_SIZE is 4096), selectors,
\* classes in one chain and places a method object can be at
CacheSize == 2
NumSelectors == 2
NumClasses == 2
NumMethods == 2
\* the largest tick budget of one call of execute
MaxTicks == 4

\* ------------------------------------------------------------------ layout
ObjSize == 2 * 2
HalfSize == ObjSize * HalfObjs
m_heapSize == 2 * HalfSize
StaticBase == 2
nilObject == StaticBase
globalObject == nilObject + ObjSize
StaticTop == globalObject + ObjSize
m_heapOne == StaticTop
m_heapTwo == m_heapOne + 2 * HalfSize
\* uintptr_t arithmetic wraps; the checker's integers are 32 bit signed, so the
\* modulus 2^30 stands for the 2^32 (or 2^64) of the machine word
PtrModulus == 2 ^ 30


SlotOf(obj) == obj + 2
ObjOf(slot) == slot - 2

IsSmallInteger(p) == p % 2 = 1

Externals == 1 .. NumExternal
\* receivers of the compiled methods: the object a handle refers to, or (0)
\* the global object of the static heap
Receivers == Externals \cup {0}

VARIABLES
    heap,                           \* object address -> <<slot value>>
    ext,                            \* contents of the registered external pointers
    m_staticRoots,                  \* list of registered static root slots (addresses)
    m_crossGenerationalReferences,  \* std::list of old slot addresses
    m_activeHeapBase, m_activeHeapPointer,
    m_inactiveHeapBase, m_inactiveHeapPointer,
    pc,                             \* position inside collectGarbage / allocate
    pending,                        \* external pointer waiting for its allocation, or 0
    barriered,                      \* old slots that got a young value by assignInstance
    last,                           \* what the last completed operation did
    num,                            \* the last integer conversion: argument and results
    jit,                            \* MethodCompiler at work on one method
    vm,                             \* the compiled code at run time: contexts, blocks, cache
    stat                            \* the collection counters getStat reports

vars == <<heap, ext, m_staticRoots, m_crossGenerationalReferences,
          m_activeHeapBase, m_activeHeapPointer,
          m_inactiveHeapBase, m_inactiveHeapPointer, pc, pending, barriered, last, num, jit,
          vm, stat>>

\* the memory manager's fields as one record, so that the methods compose
MM == [heap |-> heap, ext |-> ext, sroots |-> m_staticRoots,
       cg |-> m_crossGenerationalReferences,
       ab |-> m_activeHeapBase, ahp |-> m_activeHeapPointer,
       ib |-> m_inactiveHeapBase, ihp |-> m_inactiveHeapPointer,
       fwd |-> <<>>]

SetMM(m) ==
    /\ heap' = m.heap
    /\ ext' = m.ext
    /\ m_staticRoots' = m.sroots
    /\ m_crossGenerationalReferences' = m.cg
    /\ m_activeHeapBase' = m.ab
    /\ m_activeHeapPointer' = m.ahp
    /\ m_inactiveHeapBase' = m.ib
    /\ m_inactiveHeapPointer' = m.ihp

ReadSlot(m, slot) == m.heap[ObjOf(slot)][1]
WriteSlot(m, slot, v) == [m EXCEPT !.heap[ObjOf(slot)] = <<v>>]

\* ------------------------------------------------------ integer conversions
\* the words of the machine, and the conversion of a signed value to unsigned
WordModulus == 2 ^ WordBits
Word == 0 .. WordModulus - 1
ToWord(n) == n % WordModulus

\* (uint32_t) value >> 1
getIntegerValue(value) == ToWord(value) \div 2

\* newInteger that shifts and leaves the tag bit clear
newInteger_noTag(value) == (ToWord(value) * 2) % WordModulus

\* (value << 1) | 1, on an unsigned word
newInteger(value) == ((ToWord(value) * 2) % WordModulus) + 1

NumIdle == [op |-> "none", arg |-> 0, res |-> 0, back |-> 0]

\* no method is being compiled
JitIdle == [phase |-> "idle"]

\* an entry of the method cache after flushMethodCache: all zero
EmptyEntry == [methodName |-> 0, receiverClass |-> 0, method |-> 0]

\* no compiled code runs, no class has a method, the cache is empty
VmIdle ==
    [status |-> "idle", chain |-> <<>>, blocks |-> <<>>, nextId |-> 1,
     throw |-> [value |-> 0, creating |-> 0, target |-> 0, chain |-> <<>>],
     delivered |-> [to |-> 0, value |-> 0],
     m_lookupCache |-> [i \in 0 .. CacheSize - 1 |-> EmptyEntry],
     methods |-> [c \in 1 .. NumClasses |-> [sel \in 1 .. NumSelectors |-> 0]],
     sent |-> [op |-> "none", selector |-> 0, klass |-> 0, method |-> 0,
               hit |-> FALSE, first |-> FALSE, old |-> 0],
     since |-> {},
     process |-> [contexts |-> <<>>, result |-> "none",
                  value |-> [klass |-> 0, symbol |-> 0, elements |-> <<>>]],
     bodies |-> <<>>,
     ran |-> [ticks |-> 0, steps |-> 0, loaded |-> FALSE]]

\* ------------------------------------------------------------ predicates
isInStaticHeap(location) == location >= StaticBase /\ location < StaticTop

isInYoungHeap(m, location) ==
    location >= m.ahp /\ location < m_heapOne + m_heapSize \div 2

InHeapOne(a) == a >= m_heapOne /\ a < m_heapOne + HalfSize
InHeapTwo(a) == a >= m_heapTwo /\ a < m_heapTwo + HalfSize

\* --------------------------------------------------- BakerMemoryManager
\* moveObject that ignores the forwarding mark and copies the object again
RECURSIVE moveObject_again(_, _)
moveObject_again(p, m) ==
    IF IsSmallInteger(p) THEN [obj |-> p, mm |-> m]
    ELSE IF ~(p >= m.ihp /\ p < m.ib + m_heapSize \div 2) THEN [obj |-> p, mm |-> m]
    ELSE LET new == m.ahp - ObjSize
             m1 == [m EXCEPT !.ahp = new,
                             !.fwd = (p :> new) @@ m.fwd,
                             !.heap = (new :> m.heap[p]) @@ m.heap]
         IN IF p \in DOMAIN m.fwd THEN [obj |-> new, mm |-> m1]
            ELSE LET r == moveObject_again(m.heap[p][1], m1)
                 IN [obj |-> new, mm |-> [r.mm EXCEPT !.heap[new] = <<r.obj>>]]

RECURSIVE moveObject(_, _)
\* moveObject that takes every object outside the static heap for one to move
moveObject_anySpace(p, m) ==
    IF IsSmallInteger(p) THEN [obj |-> p, mm |-> m]
    ELSE IF isInStaticHeap(p) \/ p \notin DOMAIN m.heap THEN [obj |-> p, mm |-> m]
    ELSE IF p \in DOMAIN m.fwd THEN [obj |-> m.fwd[p], mm |-> m]
    ELSE LET new == m.ahp - ObjSize
             m1 == [m EXCEPT !.ahp = new,
                             !.fwd = (p :> new) @@ m.fwd,
                             !.heap = (new :> m.heap[p]) @@ m.heap]
             r == moveObject(m.heap[p][1], m1)
         IN [obj |-> new, mm |-> [r.mm EXCEPT !.heap[new] = <<r.obj>>]]

\* moveObject: a small integer and a word outside the occupied part of the
\* space being evacuated come back unchanged, an object already moved yields
\* its forwarding address, anything else is copied below the bump pointer of
\* the receiving half together with everything reachable from it.
moveObject(p, m) ==
    IF IsSmallInteger(p) THEN [obj |-> p, mm |-> m]
    ELSE IF ~(p >= m.ihp /\ p < m.ib + m_heapSize \div 2) THEN [obj |-> p, mm |-> m]
    ELSE IF p \in DOMAIN m.fwd THEN [obj |-> m.fwd[p], mm |-> m]
    ELSE LET new == m.ahp - ObjSize
             m1 == [m EXCEPT !.ahp = new,
                             !.fwd = (p :> new) @@ m.fwd,
                             !.heap = (new :> m.heap[p]) @@ m.heap]
             r == moveObject(m.heap[p][1], m1)
         IN [obj |-> new, mm |-> [r.mm EXCEPT !.heap[new] = <<r.obj>>]]

\* **iSlot = moveObject(**iSlot) for every slot address of a list, in order
RECURSIVE MoveSlots(_, _)
MoveSlots(m, slots) ==
    IF slots = <<>> THEN m
    ELSE LET r == moveObject(ReadSlot(m, Head(slots)), m)
         IN MoveSlots(WriteSlot(r.mm, Head(slots), r.obj), Tail(slots))

\* the same for the external pointers e .. NumExternal; young = TRUE applies
\* the range test of moveYoungObjects before moving
RECURSIVE MoveExternals(_, _, _)
MoveExternals(m, e, young) ==
    IF e > NumExternal THEN m
    ELSE LET cur == m.ext[e]
             go == ~young \/ (cur >= m.ihp /\ cur < m_heapOne + m_heapSize \div 2)
             r == IF go THEN moveObject(cur, m) ELSE [obj |-> cur, mm |-> m]
         IN MoveExternals([r.mm EXCEPT !.ext[e] = r.obj], e + 1, young)

moveObjects(m) == MoveExternals(MoveSlots(m, m.sroots), 1, FALSE)

\* ---------------------------------------------- GenerationalMemoryManager
RECURSIVE MoveYoungStaticRoots(_, _)
MoveYoungStaticRoots(m, roots) ==
    IF roots = <<>> THEN m
    ELSE LET iRoot == Head(roots)
             cur == ReadSlot(m, iRoot)
             top == m_heapOne + m_heapSize \div 2
             go == (cur >= m.ihp /\ cur < top) \/ (iRoot >= m.ihp /\ iRoot < top)
             r == IF go THEN moveObject(cur, m) ELSE [obj |-> cur, mm |-> m]
         IN MoveYoungStaticRoots(WriteSlot(r.mm, iRoot, r.obj), Tail(roots))

\* moveYoungObjects that forgets m_crossGenerationalReferences.clear()
moveYoungObjects_noClear(m) ==
    LET m1 == MoveSlots(m, m.cg)
        m3 == MoveExternals(m1, 1, TRUE)
    IN MoveYoungStaticRoots(m3, m3.sroots)

moveYoungObjects(m) ==
    LET m1 == MoveSlots(m, m.cg)
        m2 == [m1 EXCEPT !.cg = <<>>]
        m3 == MoveExternals(m2, 1, TRUE)
    IN MoveYoungStaticRoots(m3, m3.sroots)

\* memset of one half: the objects stored there are gone
Wipe(h, base) ==
    [o \in {a \in DOMAIN h : ~(a >= base /\ a < base + m_heapSize \div 2)} |-> h[o]]

collectLeftToRight(m, fullCollect) ==
    LET m1 == [m EXCEPT !.ab = m_heapTwo, !.ib = m_heapOne,
                        !.ahp = m.ihp, !.ihp = m.ahp]
        m2 == IF fullCollect THEN moveObjects(m1) ELSE moveYoungObjects(m1)
    IN [m2 EXCEPT !.ib = m_heapTwo,
                  !.ihp = m2.ahp,
                  !.ab = m_heapOne,
                  !.ahp = m_heapOne + m_heapSize \div 2,
                  !.heap = Wipe(m2.heap, m_heapOne),
                  !.fwd = <<>>]

\* collectRightToLeft that leaves the survivors in heap one
collectRightToLeft_noRefill(m) ==
    LET m1 == [m EXCEPT !.ab = m_heapOne, !.ib = m_heapTwo,
                        !.ahp = m_heapOne + m_heapSize \div 2]
        m2 == moveObjects(m1)
    IN [m2 EXCEPT !.ihp = m_heapTwo + m_heapSize \div 2,
                  !.heap = Wipe(m2.heap, m_heapTwo),
                  !.fwd = <<>>]

collectRightToLeft(m) ==
    LET m1 == [m EXCEPT !.ab = m_heapOne, !.ib = m_heapTwo,
                        !.ahp = m_heapOne + m_heapSize \div 2]
        m2 == moveObjects(m1)
        m3 == [m2 EXCEPT !.ihp = m_heapTwo + m_heapSize \div 2,
                         !.heap = Wipe(m2.heap, m_heapTwo),
                         !.fwd = <<>>]
    IN collectLeftToRight(m3, TRUE)

checkThreshold(m) ==
    LET distance == (m.ihp - m.ib) % PtrModulus
    IN distance < m_heapSize \div 8

\* std::list::push_front
addCrossgenReference(m, pointer) == [m EXCEPT !.cg = <<pointer>> \o m.cg]

\* erase the first element equal to pointer, if there is one
RECURSIVE EraseFirst(_, _)
EraseFirst(list, x) ==
    IF list = <<>> THEN <<>>
    ELSE IF Head(list) = x THEN Tail(list)
    ELSE <<Head(list)>> \o EraseFirst(Tail(list), x)

removeCrossgenReference(m, pointer) == [m EXCEPT !.cg = EraseFirst(m.cg, pointer)]

InList(list, x) == \E i \in 1 .. Len(list) : list[i] = x
Count(list, x) == Cardinality({i \in 1 .. Len(list) : list[i] = x})

\* BakerMemoryManager::checkRoot: static-root handling.  A static slot that
\* receives a reference to a non-static value is registered as a static root,
\* one that goes back to a static value is unregistered.
BakerCheckRoot(m, value, objectSlot) ==
    LET oldValue == ReadSlot(m, objectSlot)
        valueIsStatic == isInStaticHeap(value)
        oldValueIsStatic == isInStaticHeap(oldValue)
    IN IF ~valueIsStatic
       THEN [ret |-> TRUE,
             mm |-> IF oldValueIsStatic /\ ~InList(m.sroots, objectSlot)
                    THEN [m EXCEPT !.sroots = <<objectSlot>> \o m.sroots]
                    ELSE m]
       ELSE IF ~oldValueIsStatic
            THEN [ret |-> TRUE, mm |-> [m EXCEPT !.sroots = EraseFirst(m.sroots, objectSlot)]]
            ELSE [ret |-> FALSE, mm |-> m]

\* checkRoot whose young-value branch registers nothing
checkRoot_noAdd(m, value, objectSlot) ==
    LET slotIsYoung == isInYoungHeap(m, objectSlot)
        previousValue == ReadSlot(m, objectSlot)
        valueIsYoung == isInYoungHeap(m, value)
        previousValueIsYoung == isInYoungHeap(m, previousValue)
    IN IF slotIsYoung THEN [ret |-> FALSE, mm |-> m]
       ELSE IF isInStaticHeap(objectSlot) THEN BakerCheckRoot(m, value, objectSlot)
       ELSE IF ~valueIsYoung /\ previousValueIsYoung
            THEN [ret |-> TRUE, mm |-> removeCrossgenReference(m, objectSlot)]
       ELSE [ret |-> FALSE, mm |-> m]

\* checkRoot without the test of the slot's own generation
checkRoot_anySlot(m, value, objectSlot) ==
    LET previousValue == ReadSlot(m, objectSlot)
        valueIsYoung == isInYoungHeap(m, value)
        previousValueIsYoung == isInYoungHeap(m, previousValue)
    IN IF isInStaticHeap(objectSlot) THEN BakerCheckRoot(m, value, objectSlot)
       ELSE IF valueIsYoung /\ ~previousValueIsYoung
            THEN [ret |-> TRUE, mm |-> addCrossgenReference(m, objectSlot)]
       ELSE IF ~valueIsYoung /\ previousValueIsYoung
            THEN [ret |-> TRUE, mm |-> removeCrossgenReference(m, objectSlot)]
       ELSE [ret |-> FALSE, mm |-> m]

checkRoot(m, value, objectSlot) ==
    LET slotIsYoung == isInYoungHeap(m, objectSlot)
        previousValue == ReadSlot(m, objectSlot)
        valueIsYoung == isInYoungHeap(m, value)
        previousValueIsYoung == isInYoungHeap(m, previousValue)
    IN IF slotIsYoung THEN [ret |-> FALSE, mm |-> m]
       ELSE IF isInStaticHeap(objectSlot) THEN BakerCheckRoot(m, value, objectSlot)
       ELSE IF valueIsYoung /\ ~previousValueIsYoung
            THEN [ret |-> TRUE, mm |-> addCrossgenReference(m, objectSlot)]
       ELSE IF ~valueIsYoung /\ previousValueIsYoung
            THEN [ret |-> TRUE, mm |-> removeCrossgenReference(m, objectSlot)]
       ELSE [ret |-> FALSE, mm |-> m]

\* BakerMemoryManager::allocate, the part that takes the memory: the bump
\* pointer of the active half moves down, the new object's slot is nil
HasRoom(m) == m.ahp - ObjSize >= m.ab
allocate(m) ==
    LET new == m.ahp - ObjSize
    IN [obj |-> new, mm |-> [m EXCEPT !.ahp = new, !.heap = (new :> <<nilObject>>) @@ m.heap]]


\* ------------------------------------------------------------- operations
Idle == [op |-> "none", slot |-> 0, value |-> 0, prev |-> 0, ret |-> FALSE,
         cg |-> <<>>, free |-> 0, full |-> FALSE, live |-> 0,
         roots |-> <<>>, shape |-> <<>>, young |-> 0, oldTop |-> 0, ints |-> {}]

\* objects reachable from the registered roots through slots that refer to
\* an object of the heap
RootValues(m) ==
    {m.ext[e] : e \in Externals} \cup {ReadSlot(m, m.sroots[i]) : i \in 1 .. Len(m.sroots)}

RECURSIVE ReachFrom(_, _)
ReachFrom(m, seen) ==
    LET more == {m.heap[o][1] : o \in seen} \cap DOMAIN m.heap
    IN IF more \subseteq seen THEN seen ELSE ReachFrom(m, seen \cup more)

Reachable(m) == ReachFrom(m, RootValues(m) \cap DOMAIN m.heap)

\* what the root slots hold, in the order the collector visits the kinds of
\* roots: the external pointers, the static roots, the slots of a crossgen list
RootSlotValues(m, crossgen) ==
    m.ext \o [i \in 1 .. Len(m.sroots) |-> ReadSlot(m, m.sroots[i])]
          \o [i \in 1 .. Len(crossgen) |-> ReadSlot(m, crossgen[i])]

\* the small integers moveYoungObjects passes to moveObject: whatever a listed
\* crossgen slot holds, and what an external pointer or a static root holds if
\* the word lies in the address range of the young objects
SmallIntegersMoved(m) ==
    LET top == m_heapOne + m_heapSize \div 2
        inRange(x) == x >= m.ahp /\ x < top
    IN {v \in {ReadSlot(m, m.cg[i]) : i \in 1 .. Len(m.cg)}
              \cup {m.ext[e] : e \in {x \in Externals : inRange(m.ext[x])}}
              \cup {ReadSlot(m, m.sroots[i]) :
                       i \in {x \in 1 .. Len(m.sroots) :
                                 inRange(ReadSlot(m, m.sroots[x])) \/ inRange(m.sroots[x])}} :
          IsSmallInteger(v)}

\* young objects a young collection has to copy: those its roots refer to and
\* those reachable from them through young objects
RECURSIVE YoungFrom(_, _)
YoungFrom(m, seen) ==
    LET more == {m.heap[o][1] : o \in seen}
                  \cap {o \in DOMAIN m.heap : isInYoungHeap(m, o)}
    IN IF more \subseteq seen THEN seen ELSE YoungFrom(m, seen \cup more)

YoungLive(m) ==
    LET r == RootSlotValues(m, m.cg)
    IN YoungFrom(m, {r[i] : i \in 1 .. Len(r)}
                      \cap {o \in DOMAIN m.heap : isInYoungHeap(m, o)})

\* the chain of references that starts at p, with addresses abstracted away:
\* an object is "obj", a reference back into the chain is the position it
\* returns to, a static address or a small integer is itself, an address
\* where no object lies is "lost"
RECURSIVE Shape(_, _, _)
Shape(m, p, seen) ==
    IF IsSmallInteger(p) \/ isInStaticHeap(p) THEN <<p>>
    ELSE IF \E i \in 1 .. Len(seen) : seen[i] = p
         THEN <<CHOOSE i \in 1 .. Len(seen) : seen[i] = p>>
    ELSE IF p \notin DOMAIN m.heap THEN <<"lost">>
    ELSE <<"obj">> \o Shape(m, m.heap[p][1], seen \o <<p>>)

\* the objects registered through the static roots
StaticRootShape(m) == [i \in 1 .. Len(m.sroots) |-> Shape(m, ReadSlot(m, m.sroots[i]), <<>>)]

\* the counters of a manager that has not collected yet, with the number of
\* calls of collectGarbage begun and of threshold checks that succeeded
NoStat == [m_collectionsCount |-> 0, m_leftToRightCollections |-> 0,
           m_rightToLeftCollections |-> 0, called |-> 0, succeeded |-> 0]

Init ==
    /\ heap = (globalObject :> <<nilObject>>)
    /\ ext = [e \in Externals |-> nilObject]
    /\ m_staticRoots = <<SlotOf(globalObject)>>
    /\ m_crossGenerationalReferences = <<>>
    /\ m_activeHeapBase = m_heapOne
    /\ m_activeHeapPointer = m_heapOne + m_heapSize \div 2
    /\ m_inactiveHeapBase = m_heapTwo
    /\ m_inactiveHeapPointer = m_heapTwo + m_heapSize \div 2
    /\ pc = "run"
    /\ pending = 0
    /\ barriered = {}
    /\ last = Idle
    /\ num = NumIdle
    /\ jit = JitIdle
    /\ vm = VmIdle
    /\ stat = NoStat

\* the old generation has not been overrun.  Survivors that do not fit into
\* heap two are written below its base, into memory the manager does not own;
\* the run is followed up to the return of that collectGarbage and no further
CanCollect == m_inactiveHeapPointer >= m_heapTwo

\* allocate(): take the memory, or start collectGarbage() and retry after it
Allocate(e) ==
    /\ pc = "run"
    /\ CanCollect
    /\ IF HasRoom(MM)
       THEN /\ LET r == allocate(MM) IN SetMM([r.mm EXCEPT !.ext[e] = r.obj])
            /\ UNCHANGED <<pc, pending>>
       ELSE /\ pc' = "collect"
            /\ pending' = e
            /\ UNCHANGED <<heap, ext, m_staticRoots, m_crossGenerationalReferences,
                           m_activeHeapBase, m_activeHeapPointer,
                           m_inactiveHeapBase, m_inactiveHeapPointer>>
    /\ last' = Idle
    /\ UNCHANGED barriered
    /\ UNCHANGED <<num, jit, vm, stat>>

RetryAllocate ==
    /\ pc = "retry"
    /\ HasRoom(MM)
    /\ LET r == allocate(MM) IN SetMM([r.mm EXCEPT !.ext[pending] = r.obj])
    /\ pc' = "run"
    /\ pending' = 0
    /\ last' = Idle
    /\ UNCHANGED barriered
    /\ UNCHANGED <<num, jit, vm, stat>>

\* the mutator loads a constant into a handle
SetExternal(e, c) ==
    /\ pc = "run"
    /\ CanCollect
    /\ ext[e] # c
    /\ ext' = [ext EXCEPT ![e] = c]
    /\ last' = Idle
    /\ UNCHANGED <<heap, m_staticRoots, m_crossGenerationalReferences,
                   m_activeHeapBase, m_activeHeapPointer,
                   m_inactiveHeapBase, m_inactiveHeapPointer, pc, pending, barriered>>
    /\ UNCHANGED <<num, jit, vm, stat>>

Self(r) == IF r = 0 THEN globalObject ELSE ext[r]

\* pushInstance: read the receiver's instance variable
doPushInstance(e, r) ==
    /\ pc = "run"
    /\ CanCollect
    /\ Self(r) \in DOMAIN heap
    /\ ext' = [ext EXCEPT ![e] = heap[Self(r)][1]]
    /\ last' = Idle
    /\ UNCHANGED <<heap, m_staticRoots, m_crossGenerationalReferences,
                   m_activeHeapBase, m_activeHeapPointer,
                   m_inactiveHeapBase, m_inactiveHeapPointer, pc, pending, barriered>>
    /\ UNCHANGED <<num, jit, vm, stat>>

\* assignInstance as MethodCompiler emits it: the store, then checkRoot
AssignInstanceCode(m, value, instanceVariableAddress) ==
    checkRoot(WriteSlot(m, instanceVariableAddress, value), value, instanceVariableAddress)

doAssignInstance(r, v) ==
    /\ pc = "run"
    /\ CanCollect
    /\ Self(r) \in DOMAIN heap
    /\ LET slot == SlotOf(Self(r))
           value == ext[v]
           res == AssignInstanceCode(MM, value, slot)
           oldSlot == ~isInYoungHeap(MM, slot) /\ ~isInStaticHeap(slot)
       IN /\ SetMM(res.mm)
          /\ last' = [Idle EXCEPT !.op = "assignInstance", !.slot = slot, !.value = value,
                                  !.prev = heap[Self(r)][1], !.ret = res.ret,
                                  !.cg = m_crossGenerationalReferences]
          /\ barriered' = IF oldSlot /\ isInYoungHeap(MM, value)
                          THEN barriered \cup {slot}
                          ELSE barriered \ {slot}
    /\ UNCHANGED <<pc, pending>>
    /\ UNCHANGED <<num, jit, vm, stat>>

\* a direct call of the collector API checkRoot(value, &slot) with a value the
\* caller holds in a handle and the slot of a receiver
CheckRootCall(r, v) ==
    /\ pc = "run"
    /\ CanCollect
    /\ Self(r) \in DOMAIN heap
    /\ LET value == ext[v]
           slot == SlotOf(Self(r))
           res == checkRoot(MM, value, slot)
       IN /\ Len(res.mm.cg) <= MaxCrossgen
          /\ SetMM(res.mm)
          /\ last' = [Idle EXCEPT !.op = "checkRoot", !.slot = slot, !.value = value,
                                  !.prev = ReadSlot(MM, slot), !.ret = res.ret,
                                  !.cg = m_crossGenerationalReferences]
    /\ UNCHANGED <<pc, pending, barriered>>
    /\ UNCHANGED <<num, jit, vm, stat>>

\* collectGarbage(), entered from outside
CollectGarbageCall ==
    /\ pc = "run"
    /\ CanCollect
    /\ pc' = "collect"
    /\ last' = Idle
    /\ UNCHANGED <<heap, ext, m_staticRoots, m_crossGenerationalReferences,
                   m_activeHeapBase, m_activeHeapPointer,
                   m_inactiveHeapBase, m_inactiveHeapPointer, pending, barriered>>
    /\ UNCHANGED <<num, jit, vm, stat>>

\* collectGarbage(): collectLeftToRight()
YoungCollection ==
    /\ pc = "collect"
    /\ SetMM(collectLeftToRight(MM, FALSE))
    /\ pc' = "threshold"
    /\ last' = [Idle EXCEPT !.op = "collectLeftToRight",
                            !.cg = m_crossGenerationalReferences,
                            !.roots = RootSlotValues(MM, m_crossGenerationalReferences),
                            !.shape = StaticRootShape(MM),
                            !.young = Cardinality(YoungLive(MM)),
                            !.oldTop = m_inactiveHeapPointer,
                            !.ints = SmallIntegersMoved(MM)]
    /\ UNCHANGED <<pending, barriered>>
    /\ UNCHANGED <<num, jit, vm, stat>>

\* collectGarbage(): if (checkThreshold()) collectRightToLeft(); and return
ThresholdCheck ==
    /\ pc = "threshold"
    /\ LET full == checkThreshold(MM)
       IN /\ SetMM(IF full THEN collectRightToLeft(MM) ELSE MM)
          /\ last' = [Idle EXCEPT !.op = "collectGarbage",
                                  !.free = m_inactiveHeapPointer - m_heapTwo,
                                  !.full = full,
                                  !.live = Cardinality(Reachable(MM) \ {globalObject}),
                                  !.roots = last.roots,
                                  !.shape = last.shape]
    /\ pc' = IF pending = 0 THEN "run" ELSE "retry"
    /\ barriered' = {}
    /\ UNCHANGED pending
    /\ UNCHANGED <<num, jit, vm, stat>>

Constants == {nilObject}

Mutator ==
    \/ \E e \in Externals : Allocate(e)
    \/ \E e \in Externals, c \in Constants : SetExternal(e, c)
    \/ \E e \in Externals, r \in Receivers : doPushInstance(e, r)
    \/ \E r \in Receivers, v \in Externals : doAssignInstance(r, v)

Collector ==
    \/ CollectGarbageCall
    \/ YoungCollection
    \/ ThresholdCheck
    \/ RetryAllocate

Next == Mutator \/ Collector

Spec == Init /\ [][Next]_vars

\* a client of the collector API: it allocates, stores, drops references and
\* calls the barrier directly
NextApi ==
    \/ \E e \in Externals : Allocate(e)
    \/ \E e \in Externals, c \in Constants : SetExternal(e, c)
    \/ \E r \in Receivers, v \in Externals : doAssignInstance(r, v)
    \/ Collector
    \/ \E r \in Receivers, v \in Externals : CheckRootCall(r, v)

SpecApi == Init /\ [][NextApi]_vars

\* the counters are written and never read by the collector, and the
\* specifications above leave them at rest; here collectGarbage is followed
\* with them, for MaxCollections calls
MaxCollections == 3

\* the end of collectLeftToRight
countLeftToRight(counters) == [counters EXCEPT !.m_leftToRightCollections = @ + 1]

\* collectRightToLeft that would not go through collectLeftToRight
countRightToLeft_alone(counters) ==
    [counters EXCEPT !.m_rightToLeftCollections = @ + 1]

\* collectRightToLeft: collectLeftToRight(true), then its own counter
countRightToLeft(counters) ==
    [countLeftToRight(counters) EXCEPT !.m_rightToLeftCollections = @ + 1]

\* collectGarbage(): collectLeftToRight()
collectGarbageYoung ==
    /\ pc = "collect"
    /\ SetMM(collectLeftToRight(MM, FALSE))
    /\ pc' = "threshold"
    /\ last' = [Idle EXCEPT !.op = "collectLeftToRight"]
    /\ stat' = countLeftToRight([stat EXCEPT !.called = @ + 1])
    /\ UNCHANGED <<pending, barriered, num, jit, vm>>

\* collectGarbage(): if (checkThreshold()) collectRightToLeft();
\* m_collectionsCount++ and return
collectGarbageThreshold ==
    /\ pc = "threshold"
    /\ LET full == checkThreshold(MM)
           counted == IF full
                      THEN countRightToLeft([stat EXCEPT !.succeeded = @ + 1])
                      ELSE stat
       IN /\ SetMM(IF full THEN collectRightToLeft(MM) ELSE MM)
          /\ last' = [Idle EXCEPT !.op = "collectGarbage", !.full = full]
          /\ stat' = [counted EXCEPT !.m_collectionsCount = @ + 1]
    /\ pc' = IF pending = 0 THEN "run" ELSE "retry"
    /\ barriered' = {}
    /\ UNCHANGED <<pending, num, jit, vm>>

NextCollections ==
    \/ \E e \in Externals : stat.called < MaxCollections /\ Allocate(e)
    \/ \E e \in Externals, c \in Constants : SetExternal(e, c)
    \/ stat.called < MaxCollections /\ CollectGarbageCall
    \/ collectGarbageYoung
    \/ collectGarbageThreshold
    \/ RetryAllocate

SpecCollections == Init /\ [][NextCollections]_vars

\* a tagged small integer whose word lies in the address range of heap one
youngInteger == m_heapOne + HalfSize - 1

\* a client that also keeps small integers in its handles
NextInt ==
    \/ \E e \in Externals : Allocate(e)
    \/ \E e \in Externals, c \in {nilObject, youngInteger} : SetExternal(e, c)
    \/ \E r \in Receivers, v \in Externals : CheckRootCall(r, v)
    \/ Collector

SpecInt == Init /\ [][NextInt]_vars

\* ---------------------------------------------------- integer conversions
\* the variables of the memory manager
gcVars == <<heap, ext, m_staticRoots, m_crossGenerationalReferences,
            m_activeHeapBase, m_activeHeapPointer,
            m_inactiveHeapBase, m_inactiveHeapPointer, pc, pending, barriered, last,
            stat>>

\* the small integers: the words with the low bit set
SmallIntegers == {p \in Word : IsSmallInteger(p)}
\* the values a small integer is said to encode, one bit less than a word, signed
SmallValues == -(2 ^ (WordBits - 2)) .. 2 ^ (WordBits - 2) - 1

\* decode a small integer and encode the result again
Decode(p) ==
    /\ num' = [op |-> "getIntegerValue", arg |-> p, res |-> getIntegerValue(p),
               back |-> newInteger(getIntegerValue(p))]
    /\ UNCHANGED <<gcVars, jit, vm>>

\* encode a value and decode the result again
Encode(n) ==
    /\ num' = [op |-> "newInteger", arg |-> n, res |-> newInteger(n),
               back |-> getIntegerValue(newInteger(n))]
    /\ UNCHANGED <<gcVars, jit, vm>>

NextInteger ==
    \/ \E p \in SmallIntegers : Decode(p)
    \/ \E n \in SmallValues : Encode(n)

SpecInteger == Init /\ [][NextInteger]_vars

\* ---------------------------------------------------------- MethodCompiler
\* SmalltalkVM::Opcode, Special and the constants of pushConstant
opExtended == 0
opPushArgument == 2
opPushConstant == 5
opAssignInstance == 6
opAssignTemporary == 7
opMarkArguments == 8
opSendBinary == 11
opPushBlock == 12
opDoSpecial == 14
selfReturn == 1
stackReturn == 2
blockReturn == 3
duplicate == 4
popTop == 5
branch == 6
branchIfTrue == 7
branchIfFalse == 8
nilConst == 10
trueConst == 11
falseConst == 12

\* Values of the operand stack.  The compiler keeps the values the emitted
\* code computes; an entry of the model is what that value is at run time: a
\* tagged small integer, an object known by name, a block, or the reply of a
\* message send.
SmallInt(word) == [kind |-> "smallInteger", word |-> word]
Object(name) == [kind |-> "object", name |-> name]
\* createBlock with the argument offset and the byte pointer exchanged
BlockObject_swapped(creatingContext, argOffset, bytePointer) ==
    [kind |-> "block", creatingContext |-> creatingContext,
     argOffset |-> bytePointer, bytePointer |-> argOffset]

BlockObject(creatingContext, argOffset, bytePointer) ==
    [kind |-> "block", creatingContext |-> creatingContext,
     argOffset |-> argOffset, bytePointer |-> bytePointer]
ArrayObject(elements) == [kind |-> "array", elements |-> elements]
Reply(selector, arguments) ==
    [kind |-> "reply", selector |-> selector, arguments |-> arguments]
isSmallInt(value) == value.kind = "smallInteger"

\* The methods of the image, as its compiler writes them: a sequence of
\* instructions in the short form (one byte: opcode and argument nibble), in
\* the extended form (a byte with the opcode in the low nibble, then the
\* argument byte), a branch followed by its two byte target, or a pushBlock
\* followed by the two byte offset of the end of its body and by the body.
Short(high, low) == [form |-> "short", high |-> high, low |-> low]
Extended(high, low) == [form |-> "extended", high |-> high, low |-> low]
Branch(target) == [form |-> "branch", high |-> opDoSpecial, low |-> branch, target |-> target]
CondBranch(low, target) == [form |-> "branch", high |-> opDoSpecial, low |-> low, target |-> target]
PushBlock(low, body) == [form |-> "block", high |-> opPushBlock, low |-> low, body |-> body]

RECURSIVE Assemble(_, _)
Assemble(instructions, offset) ==
    IF instructions = <<>> THEN <<>>
    ELSE LET i == Head(instructions)
             code ==
                 CASE i.form = "short" -> <<i.high * 16 + i.low>>
                   [] i.form = "extended" -> <<opExtended * 16 + i.high, i.low>>
                   [] i.form = "branch" ->
                        <<i.high * 16 + i.low, i.target % 256, i.target \div 256>>
                   [] i.form = "block" ->
                        LET body == Assemble(i.body, offset + 3)
                            end == offset + 3 + Len(body)
                        IN <<i.high * 16 + i.low, end % 256, end \div 256>> \o body
         IN code \o Assemble(Tail(instructions), offset + Len(code))

\* the offsets at which the instructions of a method start, block bodies
\* included, and the opcode and argument of each
RECURSIVE Listing(_, _)
Listing(instructions, offset) ==
    IF instructions = <<>> THEN <<>>
    ELSE LET i == Head(instructions)
             here == <<[offset |-> offset, high |-> i.high, low |-> i.low]>>
             size == Len(Assemble(<<i>>, offset))
             inner == IF i.form = "block" THEN Listing(i.body, offset + 3) ELSE <<>>
         IN here \o inner \o Listing(Tail(instructions), offset + size)

\* byteCodes[bytePointer], the array being indexed from 0.  No method
\* considered here makes the compiler read past the end of the array; such a
\* read is given the byte 255.
ByteAt(byteCodes, bytePointer) ==
    IF bytePointer < Len(byteCodes) THEN byteCodes[bytePointer + 1] ELSE 255

\* decoding that takes every byte for a short instruction
DecodeInstruction_noExtended(byteCodes, bytePointer) ==
    LET byte == ByteAt(byteCodes, bytePointer)
    IN [high |-> byte \div 16, low |-> byte % 16, bytePointer |-> bytePointer + 1]

\* instruction.low = (instruction.high = byteCodes[bytePointer++]) & 0x0F;
\* instruction.high >>= 4; and the extended form
DecodeInstruction(byteCodes, bytePointer) ==
    LET byte == ByteAt(byteCodes, bytePointer)
        high == byte \div 16
        low == byte % 16
    IN IF high = opExtended
       THEN [high |-> low, low |-> ByteAt(byteCodes, bytePointer + 1),
             bytePointer |-> bytePointer + 2]
       ELSE [high |-> high, low |-> low, bytePointer |-> bytePointer + 1]

\* byteCodes[bytePointer] | (byteCodes[bytePointer + 1] << 8)
ReadTarget(byteCodes, bytePointer) ==
    ByteAt(byteCodes, bytePointer) + 256 * ByteAt(byteCodes, bytePointer + 1)

\* a stop pointer that takes no account of byteCount
StopPointer_wholeMethod(byteCodes, bytePointer, byteCount) ==
    bytePointer + Len(byteCodes)

\* stopPointer = bytePointer + (byteCount ? byteCount : byteCodes.getSize())
StopPointer(byteCodes, bytePointer, byteCount) ==
    bytePointer + (IF byteCount # 0 THEN byteCount ELSE Len(byteCodes))

\* scanForBranches: the instructions the first pass decodes, in order, from
\* bytePointer up to stopPointer
RECURSIVE scanForBranches(_, _, _)
scanForBranches(byteCodes, bytePointer, stopPointer) ==
    IF bytePointer >= stopPointer THEN <<>>
    ELSE LET instruction == DecodeInstruction(byteCodes, bytePointer)
             afterBlock == IF instruction.high = opPushBlock
                           THEN instruction.bytePointer + 2
                           ELSE instruction.bytePointer
             next == IF /\ instruction.high = opDoSpecial
                        /\ instruction.low \in {branch, branchIfTrue, branchIfFalse}
                     THEN afterBlock + 2
                     ELSE afterBlock
         IN <<[offset |-> bytePointer, high |-> instruction.high, low |-> instruction.low]>>
            \o scanForBranches(byteCodes, next, stopPointer)

\* the methods handed to the compiler: up to MaxInstr instructions that never
\* pop from an empty stack and branch to the start of an instruction.  A block
\* body is never empty (it ends in a return or, here, in the value it leaves)
\* and ends where an instruction ends.
BlockBodies == {<<Short(opPushConstant, 1)>>, <<Extended(opPushArgument, 1)>>}

Alphabet ==
    {Short(opPushArgument, a) : a \in 0 .. NumArguments - 1}
        \cup {Extended(opPushArgument, NumArguments - 1)}
        \cup {Short(opPushConstant, c) : c \in {0, 9, nilConst, trueConst, falseConst}}
        \cup {Extended(opPushConstant, falseConst)}
        \cup {Short(opSendBinary, b) : b \in 0 .. 2}
        \cup {Branch(0)}
        \cup {PushBlock(a, body) : a \in {1}, body \in BlockBodies}
        \cup {Short(opMarkArguments, n) : n \in 0 .. 2}
        \cup {Short(opAssignTemporary, i) : i \in 0 .. NumSlots - 1}
        \cup {Short(opAssignInstance, i) : i \in 0 .. NumSlots - 1}
        \cup {Short(opDoSpecial, x) : x \in {selfReturn, stackReturn, duplicate, popTop}}
        \cup {CondBranch(low, target) : low \in {branch, branchIfTrue, branchIfFalse},
                                        target \in 0 .. MaxTarget}
        \cup {Short(15, 0), Extended(opExtended, 1)}

\* the depth of the operand stack never goes below zero
RECURSIVE StackOK(_, _)
StackOK(instructions, depth) ==
    IF instructions = <<>> THEN TRUE
    ELSE LET i == Head(instructions)
             rest == Tail(instructions)
         IN CASE i.high = opSendBinary -> depth >= 2 /\ StackOK(rest, depth - 1)
              [] i.high = opMarkArguments -> depth >= i.low /\ StackOK(rest, depth - i.low + 1)
              [] i.high \in {opAssignTemporary, opAssignInstance} ->
                     depth >= 1 /\ StackOK(rest, depth)
              [] i.form = "branch" /\ i.low = branch -> StackOK(rest, depth)
              [] i.form = "branch" /\ i.low # branch -> depth >= 1 /\ StackOK(rest, depth - 1)
              [] i.high = opDoSpecial /\ i.form = "short" ->
                     CASE i.low = selfReturn -> StackOK(rest, depth)
                       [] i.low = duplicate -> depth >= 1 /\ StackOK(rest, depth + 1)
                       [] OTHER -> depth >= 1 /\ StackOK(rest, depth - 1)
              [] i.high \in {opExtended, 15} -> StackOK(rest, depth)
              [] OTHER -> StackOK(rest, depth + 1)

\* every branch of the method aims at the start of one of its instructions
TargetsOK(instructions) ==
    LET starts == {Len(Assemble(SubSeq(instructions, 1, k - 1), 0)) :
                       k \in 1 .. Len(instructions)}
    IN \A k \in 1 .. Len(instructions) :
           instructions[k].form = "branch" => instructions[k].target \in starts

Methods ==
    {m \in UNION {[1 .. n -> Alphabet] : n \in 1 .. MaxInstr} :
         StackOK(m, 0) /\ TargetsOK(m)}

\* the methods with one more pushBlock, whose target is the offset after its
\* operand: a block without a body; the bytecodes after it are ones whose
\* handlers find their operands on a value stack that starts empty
WithEmptyBlock(methods) ==
    {m \in UNION {{SubSeq(method, 1, k) \o <<PushBlock(1, <<>>)>>
                         \o SubSeq(method, k + 1, Len(method)) : k \in 0 .. Len(method)} :
                    method \in methods \cup {<<>>}} :
         /\ StackOK(m, 0) /\ TargetsOK(m)
         /\ \A k \in 1 .. Len(m) :
                m[k] = PushBlock(1, <<>>) => StackOK(SubSeq(m, k + 1, Len(m)), 0)}

\* what a caller passes: a small, a large and a negative small integer (the
\* words that encode 1, the largest value and -1); objects come from
\* pushConstant
ArgumentValues ==
    {SmallInt(newInteger(1)), SmallInt(newInteger(2 ^ (WordBits - 2) - 1)),
     SmallInt(newInteger(-1))}

\* the targets scanForBranches makes basic blocks for: the keys of
\* m_targetToBlockMap
TargetOffsets(byteCodes, scanned) ==
    {ReadTarget(byteCodes, DecodeInstruction(byteCodes, scanned[k].offset).bytePointer) :
        k \in {j \in 1 .. Len(scanned) :
                  /\ scanned[j].high = opDoSpecial
                  /\ scanned[j].low \in {branch, branchIfTrue, branchIfFalse}}}

\* what the emitted code of one instruction does beside moving values
NoCode ==
    [op |-> "none", value |-> Object("null"), equal |-> Object("null"),
     target |-> 0, skip |-> 0]

\* TJITContext of a method or of a block: where it reads, where it stops, the
\* operand stack, the instruction it decoded last, what scanForBranches
\* decoded for it and what writeFunctionBody decoded while it was at work;
\* the basic block the builder inserts into (whether it is still empty and
\* whether its last instruction is a terminator), the branch targets whose
\* block was made the insertion block, the conditional branches emitted, and
\* the temporaries and the receiver's fields as the emitted stores leave them
NewContext(byteCodes, bytePointer, byteCount) ==
    LET stopPointer == StopPointer(byteCodes, bytePointer, byteCount)
        scanned == scanForBranches(byteCodes, bytePointer, stopPointer)
    IN [bytePointer |-> bytePointer, stopPointer |-> stopPointer,
        valueStack |-> <<>>, instruction |-> [high |-> 0, low |-> 0],
        newBytePointer |-> 0,
        scanned |-> scanned,
        written |-> <<>>,
        function |-> 0,
        methodHasBlockReturn |->
            \E k \in 1 .. Len(scanned) :
                scanned[k].high = opDoSpecial /\ scanned[k].low = blockReturn,
        insert |-> [label |-> "body", at |-> bytePointer, empty |-> TRUE,
                    terminator |-> FALSE],
        linked |-> {},
        branches |-> {},
        temporaries |-> [i \in 0 .. NumSlots - 1 |-> Object("nil")],
        selfFields |-> [i \in 0 .. NumSlots - 1 |-> Object("nil")]]

\* the innermost context, the one writeFunctionBody is working on
Current == jit.contexts[Len(jit.contexts)]
Decoded == DecodeInstruction(jit.byteCodes, Current.bytePointer)

\* the places of the bytecode array read for the instruction at bytePointer:
\* its byte, the argument byte of the extended form and the two bytes after
\* a branch and after a pushBlock
ReadsOf(byteCodes, bytePointer) ==
    LET instruction == DecodeInstruction(byteCodes, bytePointer)
        operand == \/ instruction.high = opPushBlock
                   \/ /\ instruction.high = opDoSpecial
                      /\ instruction.low \in {branch, branchIfTrue, branchIfFalse}
    IN (bytePointer .. instruction.bytePointer - 1)
           \cup (IF operand
                 THEN {instruction.bytePointer, instruction.bytePointer + 1}
                 ELSE {})

\* compileMethod up to the first instruction: scanForBranches(jit), then
\* writeFunctionBody(jit) starts at offset 0 with an empty stack
compile(methods, values) ==
    /\ jit.phase = "idle"
    /\ \E method \in methods, arguments \in [1 .. NumArguments -> values] :
           LET byteCodes == Assemble(method, 0)
               context == NewContext(byteCodes, 0, 0)
           IN jit' = [phase |-> "write", method |-> method, arguments |-> arguments,
                      byteCodes |-> byteCodes,
                      contexts |-> <<context>>,
                      closed |-> <<>>,
                      targetToBlockMap |-> TargetOffsets(byteCodes, context.scanned),
                      reads |-> UNION {ReadsOf(byteCodes, context.scanned[k].offset) :
                                           k \in 1 .. Len(context.scanned)},
                      jumps |-> {},
                      placed |-> {},
                      invalid |-> <<>>,
                      step |-> [op |-> "compileMethod", low |-> 0, before |-> <<>>,
                                offset |-> 0, code |-> NoCode]]
    /\ UNCHANGED <<gcVars, num, vm>>

compileMethod == compile(Methods, ArgumentValues)

\* one turn of the loop of writeFunctionBody decodes an instruction and hands
\* it to its handler; Dispatch is the state the handler starts from
Looping == jit.phase = "write" /\ Current.bytePointer < Current.stopPointer

\* the top of the loop: when a branch aims at the current offset and the
\* insertion block is not empty, the block made for the target becomes the
\* insertion block; when it is empty nothing is done
LinkTarget(context) ==
    IF context.bytePointer \in jit.targetToBlockMap /\ ~context.insert.empty
    THEN [context EXCEPT !.insert = [label |-> "branch", at |-> context.bytePointer,
                                     empty |-> TRUE, terminator |-> FALSE],
                         !.linked = @ \cup {context.bytePointer}]
    ELSE context

Dispatch ==
    LET here == [offset |-> Current.bytePointer, high |-> Decoded.high, low |-> Decoded.low]
    IN [i \in 1 .. Len(jit.contexts) |->
           LET c == jit.contexts[i]
               seen == [c EXCEPT !.written = Append(@, here)]
           IN IF i < Len(jit.contexts) THEN seen
              ELSE [LinkTarget(seen) EXCEPT
                        !.bytePointer = Decoded.bytePointer,
                        !.instruction = [high |-> Decoded.high, low |-> Decoded.low]]]

\* the handler's result replaces the innermost context
Handled(name, context, code) ==
    jit' = [jit EXCEPT !.contexts = [Dispatch EXCEPT ![Len(jit.contexts)] = context],
                       !.reads = @ \cup ReadsOf(jit.byteCodes, Current.bytePointer),
                       !.placed = @ \cup {[offset |-> Current.bytePointer,
                                            function |-> Current.function]},
                       !.jumps = IF code.op \in {"br", "condbr"}
                                 THEN @ \cup {code.target} ELSE @,
                       !.invalid = IF name = "invalid"
                                   THEN Append(@, Current.bytePointer) ELSE @,
                       !.step = [op |-> name, low |-> Decoded.low,
                                 before |-> Current.valueStack,
                                 offset |-> Current.bytePointer, code |-> code]]

pushValue(context, value) == [context EXCEPT !.valueStack = Append(@, value)]
popValue(context) == [context EXCEPT !.valueStack = SubSeq(@, 1, Len(@) - 1)]
lastValue(context) == context.valueStack[Len(context.valueStack)]
hasValue(context) == context.valueStack # <<>>

\* the builder appends an instruction to the insertion block
Emit(context, terminator) ==
    [context EXCEPT !.insert = [@ EXCEPT !.empty = FALSE, !.terminator = terminator]]

doPushArgument ==
    /\ Looping
    /\ Decoded.high = opPushArgument
    /\ LET context == Dispatch[Len(jit.contexts)]
           index == context.instruction.low
       IN Handled("doPushArgument",
                  Emit(pushValue(context, jit.arguments[index + 1]), FALSE), NoCode)
    /\ UNCHANGED <<gcVars, num, vm>>

\* doPushConstant with the cases of true and false exchanged
ConstantValue_swapped(constant) ==
    CASE constant \in 0 .. 9 -> SmallInt(newInteger(constant))
      [] constant = nilConst -> Object("nil")
      [] constant = trueConst -> Object("false")
      [] constant = falseConst -> Object("true")
      [] OTHER -> Object("null")

\* the value doPushConstant pushes for the argument of the instruction
ConstantValue(constant) ==
    CASE constant \in 0 .. 9 -> SmallInt(newInteger(constant))
      [] constant = nilConst -> Object("nil")
      [] constant = trueConst -> Object("true")
      [] constant = falseConst -> Object("false")
      [] OTHER -> Object("null")

\* the values pushed are constants: no instruction is emitted
doPushConstant ==
    /\ Looping
    /\ Decoded.high = opPushConstant
    /\ LET context == Dispatch[Len(jit.contexts)]
       IN Handled("doPushConstant",
                  pushValue(context, ConstantValue(context.instruction.low)), NoCode)
    /\ UNCHANGED <<gcVars, num, vm>>

\* a store that goes to the element after the one asked for
StoreAt_next(array, index, value) ==
    [array EXCEPT ![(index + 1) % NumSlots] = value]

\* CreateGEP(array, index) and CreateStore(value, address)
StoreAt(array, index, value) == [array EXCEPT ![index] = value]

\* doAssignTemporary: the value on top stays, a store to temporaries[index]
doAssignTemporary ==
    /\ Looping
    /\ Decoded.high = opAssignTemporary
    /\ LET context == Dispatch[Len(jit.contexts)]
           index == context.instruction.low
           value == lastValue(context)
       IN Handled("doAssignTemporary",
                  Emit([context EXCEPT !.temporaries = StoreAt(@, index, value)], FALSE),
                  NoCode)
    /\ UNCHANGED <<gcVars, num, vm>>

\* doAssignInstance of the compiler: the value on top stays, a store to
\* selfFields[index], then the call of checkRoot(value, address)
doAssignInstanceJit ==
    /\ Looping
    /\ Decoded.high = opAssignInstance
    /\ LET context == Dispatch[Len(jit.contexts)]
           index == context.instruction.low
           value == lastValue(context)
       IN Handled("doAssignInstance",
                  Emit([context EXCEPT !.selfFields = StoreAt(@, index, value)], FALSE),
                  [NoCode EXCEPT !.op = "checkRoot", !.value = value, !.target = index])
    /\ UNCHANGED <<gcVars, num, vm>>

\* the loop of doMarkArguments that fills the array from the last index down
\* and counts down, but from the first index up
RECURSIVE FillArguments_ascending(_, _, _)
FillArguments_ascending(context, index, fields) ==
    IF index > 0
    THEN FillArguments_ascending(popValue(context), index - 1,
                                 [fields EXCEPT ![Len(fields) - index + 1] = lastValue(context)])
    ELSE [context |-> context, fields |-> fields]

\* the loop of doMarkArguments: while (index > 0) the value popped is stored
\* at --index; fields is the array, its first element being index 0
RECURSIVE FillArguments(_, _, _)
FillArguments(context, index, fields) ==
    IF index > 0
    THEN FillArguments(popValue(context), index - 1,
                       [fields EXCEPT ![index] = lastValue(context)])
    ELSE [context |-> context, fields |-> fields]

doMarkArguments ==
    /\ Looping
    /\ Decoded.high = opMarkArguments
    /\ LET context == Dispatch[Len(jit.contexts)]
           argumentsCount == context.instruction.low
           argumentsObject == [i \in 1 .. argumentsCount |-> Object("nil")]
           filled == FillArguments(context, argumentsCount, argumentsObject)
       IN Handled("doMarkArguments",
                  Emit(pushValue(filled.context, ArrayObject(filled.fields)), FALSE),
                  NoCode)
    /\ UNCHANGED <<gcVars, num, vm>>

\* a word read as a signed number, as the signed comparisons read it
AsSigned(word) == IF word >= WordModulus \div 2 THEN word - WordModulus ELSE word

Bool(condition) == IF condition THEN Object("true") ELSE Object("false")

\* what the code emitted by doSendBinary leaves as its result: the integers
\* block when both operands are small integers, the send otherwise
SendBinaryResult(opcode, leftValue, rightValue) ==
    LET isSmallInts == isSmallInt(rightValue) /\ isSmallInt(leftValue)
        rightInt == getIntegerValue(rightValue.word)
        leftInt == getIntegerValue(leftValue.word)
        intResultObject ==
            CASE opcode = 0 -> Bool(AsSigned(leftInt) < AsSigned(rightInt))
              [] opcode = 1 -> Bool(AsSigned(leftInt) <= AsSigned(rightInt))
              [] opcode = 2 -> SmallInt(newInteger((leftInt + rightInt) % WordModulus))
              [] OTHER -> Object("null")
    IN IF isSmallInts THEN intResultObject
       ELSE Reply(opcode, <<leftValue, rightValue>>)

\* the builder ends in the block "result." that holds the phi of both paths
doSendBinary ==
    /\ Looping
    /\ Decoded.high = opSendBinary
    /\ LET context == Dispatch[Len(jit.contexts)]
           opcode == context.instruction.low
           rightValue == lastValue(context)
           leftValue == lastValue(popValue(context))
           rest == popValue(popValue(context))
           result == pushValue(rest, SendBinaryResult(opcode, leftValue, rightValue))
       IN Handled("doSendBinary",
                  [result EXCEPT !.insert = [label |-> "result", at |-> Current.bytePointer,
                                             empty |-> FALSE, terminator |-> FALSE]],
                  NoCode)
    /\ UNCHANGED <<gcVars, num, vm>>

\* doSpecial.  The returns look at the instruction before the insertion
\* point; in an empty block there is none and what isTerminator() answers for
\* the end of the list is not defined.  A branch reads its target and steps
\* over it; a conditional branch pops the condition, compares it with true or
\* with false and goes on in a new block "branchSkip."
doSpecial ==
    /\ Looping
    /\ Decoded.high = opDoSpecial
    /\ LET context == Dispatch[Len(jit.contexts)]
           opcode == context.instruction.low
           targetOffset == ReadTarget(jit.byteCodes, context.bytePointer)
       IN \E isTerminator \in IF context.insert.empty THEN BOOLEAN
                              ELSE {context.insert.terminator} :
            CASE opcode = selfReturn ->
                   IF ~isTerminator
                   THEN Handled("doSpecial", Emit(context, TRUE),
                                [NoCode EXCEPT !.op = "ret", !.value = jit.arguments[1]])
                   ELSE Handled("doSpecial", context, NoCode)
              [] opcode \in {stackReturn, blockReturn} ->
                   IF ~isTerminator /\ hasValue(context)
                   THEN Handled("doSpecial", Emit(popValue(context), TRUE),
                                [NoCode EXCEPT
                                    !.op = IF opcode = stackReturn THEN "ret"
                                           ELSE "emitBlockReturn",
                                    !.value = lastValue(context)])
                   ELSE Handled("doSpecial", context, NoCode)
              [] opcode = duplicate ->
                   Handled("doSpecial", pushValue(context, lastValue(context)), NoCode)
              [] opcode = popTop ->
                   Handled("doSpecial",
                           IF hasValue(context) THEN popValue(context) ELSE context,
                           NoCode)
              [] opcode = branch ->
                   Handled("doSpecial",
                           Emit([context EXCEPT !.bytePointer = @ + 2], TRUE),
                           [NoCode EXCEPT !.op = "br", !.target = targetOffset])
              [] opcode \in {branchIfTrue, branchIfFalse} ->
                   LET boolObject == IF opcode = branchIfTrue THEN Object("true")
                                     ELSE Object("false")
                       condition == lastValue(context)
                       skipped == [popValue(context) EXCEPT
                                      !.bytePointer = @ + 2,
                                      !.branches = @ \cup {targetOffset},
                                      !.insert = [label |-> "branchSkip",
                                                  at |-> context.bytePointer + 2,
                                                  empty |-> TRUE, terminator |-> FALSE]]
                   IN Handled("doSpecial", skipped,
                              [op |-> "condbr", value |-> condition, equal |-> boolObject,
                               target |-> targetOffset, skip |-> context.bytePointer + 2])
              [] OTHER -> Handled("doSpecial", context, NoCode)
    /\ UNCHANGED <<gcVars, num, vm>>

\* the default case of the switch of writeFunctionBody: a message is printed
\* and the loop goes on
doInvalid ==
    /\ Looping
    /\ Decoded.high \notin 1 .. 14
    /\ Handled("invalid", Dispatch[Len(jit.contexts)], NoCode)
    /\ UNCHANGED <<gcVars, num, vm>>

\* doPushBlock up to the call of writeFunctionBody for the body: it reads the
\* end of the body, steps over the operand and sets up the block's context
doPushBlock ==
    /\ Looping
    /\ Decoded.high = opPushBlock
    /\ LET context == Dispatch[Len(jit.contexts)]
           newBytePointer == ReadTarget(jit.byteCodes, context.bytePointer)
           outer == [context EXCEPT !.bytePointer = @ + 2,
                                    !.newBytePointer = newBytePointer]
           byteCount == (newBytePointer - outer.bytePointer) % PtrModulus
           blockContext == [NewContext(jit.byteCodes, outer.bytePointer, byteCount)
                               EXCEPT !.function = Current.bytePointer + 1,
                                      !.insert.label = "blockBody"]
       IN jit' = [jit EXCEPT !.contexts = Append([Dispatch EXCEPT ![Len(jit.contexts)] = outer],
                                                 blockContext),
                             !.reads = @ \cup ReadsOf(jit.byteCodes, Current.bytePointer),
                             !.step = [op |-> "doPushBlock", low |-> Decoded.low,
                                       before |-> Current.valueStack,
                                       offset |-> Current.bytePointer, code |-> NoCode]]
    /\ UNCHANGED <<gcVars, num, vm>>

\* the rest of doPushBlock, once the body is written: the call of createBlock
\* with the context, the argument offset and the byte pointer; the block is
\* pushed and the enclosing context goes on at the end of the body
doPushBlockEnd ==
    /\ jit.phase = "write"
    /\ Len(jit.contexts) > 1
    /\ Current.bytePointer >= Current.stopPointer
    /\ LET n == Len(jit.contexts)
           outer == jit.contexts[n - 1]
           blockObject == BlockObject(outer.function, outer.instruction.low,
                                      outer.bytePointer)
           resumed == [Emit(pushValue(outer, blockObject), FALSE)
                          EXCEPT !.bytePointer = outer.newBytePointer]
       IN jit' = [jit EXCEPT !.contexts = Append(SubSeq(jit.contexts, 1, n - 2), resumed),
                             !.closed = Append(@, Current),
                             !.jumps = @ \cup {outer.newBytePointer},
                             !.step = [op |-> "doPushBlockEnd", low |-> outer.instruction.low,
                                       before |-> outer.valueStack,
                                       offset |-> Current.function - 1, code |-> NoCode]]
    /\ UNCHANGED <<gcVars, num, vm>>

\* writeFunctionBody of the method leaves its loop: compileMethod returns
writeFunctionBodyEnd ==
    /\ jit.phase = "write"
    /\ Len(jit.contexts) = 1
    /\ Current.bytePointer >= Current.stopPointer
    /\ jit' = [jit EXCEPT !.phase = "done",
                          !.closed = Append(@, Current),
                          !.step = [op |-> "return", low |-> 0,
                                    before |-> Current.valueStack,
                                    offset |-> Current.bytePointer, code |-> NoCode]]
    /\ UNCHANGED <<gcVars, num, vm>>

NextCompiler ==
    \/ compileMethod
    \/ doPushArgument
    \/ doPushConstant
    \/ doAssignTemporary
    \/ doAssignInstanceJit
    \/ doMarkArguments
    \/ doSendBinary
    \/ doSpecial
    \/ doInvalid
    \/ doPushBlock
    \/ doPushBlockEnd
    \/ writeFunctionBodyEnd

SpecCompiler == Init /\ [][NextCompiler]_vars

\* the compiler at work on a method with a block without a body
compileEmptyBlock == compile(WithEmptyBlock(Methods), {SmallInt(newInteger(1))})

NextEmptyBlock ==
    \/ compileEmptyBlock
    \/ doPushArgument
    \/ doPushConstant
    \/ doAssignTemporary
    \/ doAssignInstanceJit
    \/ doMarkArguments
    \/ doSendBinary
    \/ doSpecial
    \/ doInvalid
    \/ doPushBlock
    \/ doPushBlockEnd
    \/ writeFunctionBodyEnd

SpecEmptyBlock == Init /\ [][NextEmptyBlock]_vars

\* ------------------------------------------------- the compiled code at work
\* What compileMethod and doPushBlock leave in a function, as far as a block
\* return is concerned.  methodHasBlockReturn is what a new TJITContext
\* holds; scanForBranches sets it when it meets a blockReturn.  compileMethod
\* writes the landing pad on the value it has before scanForBranches ran, and
\* doPushBlock writes none; the sends are invokes on the value it has while
\* the body is written.
CompiledFunction(methodHasBlockReturn, scanned, isBlock) ==
    [invoke |-> methodHasBlockReturn \/ scanned,
     landingPad |-> ~isBlock /\ methodHasBlockReturn]

\* a context at run time: its identity, the block it runs (0 for a method)
\* and the function it executes
Activation(id, block, function) ==
    [id |-> id, block |-> block, invoke |-> function.invoke,
     landingPad |-> function.landingPad]

Top == vm.chain[Len(vm.chain)]

\* execute starts the bottom context with some method
execute ==
    /\ vm.status = "idle"
    /\ \E methodHasBlockReturn \in BOOLEAN, scanned \in BOOLEAN :
           vm' = [vm EXCEPT !.status = "run",
                            !.chain = <<Activation(1, 0,
                                CompiledFunction(methodHasBlockReturn, scanned, FALSE))>>,
                            !.nextId = 2]
    /\ UNCHANGED <<gcVars, num, jit>>

\* a message send enters a new context of some method
sendMessage ==
    /\ vm.status = "run"
    /\ vm.nextId <= MaxContexts
    /\ \E methodHasBlockReturn \in BOOLEAN, scanned \in BOOLEAN :
           vm' = [vm EXCEPT !.chain = Append(@, Activation(vm.nextId, 0,
                                CompiledFunction(methodHasBlockReturn, scanned, FALSE))),
                            !.nextId = @ + 1]
    /\ UNCHANGED <<gcVars, num, jit>>

\* the code of pushBlock runs in a method that holds a block with a
\* blockReturn: createBlock(jit.context, ...) makes a block of the context
createBlock ==
    /\ vm.status = "run"
    /\ Top.block = 0
    /\ Top.invoke
    /\ Len(vm.blocks) < MaxBlocks
    /\ vm' = [vm EXCEPT !.blocks = Append(@, [creatingContext |-> Top.id])]
    /\ UNCHANGED <<gcVars, num, jit>>

\* a block is invoked, by whoever holds it: its function runs in a context
\* of its own
invokeBlock ==
    /\ vm.status = "run"
    /\ vm.nextId <= MaxContexts
    /\ \E b \in 1 .. Len(vm.blocks), methodHasBlockReturn \in BOOLEAN :
           vm' = [vm EXCEPT !.chain = Append(@, Activation(vm.nextId, b,
                                CompiledFunction(methodHasBlockReturn, TRUE, TRUE))),
                            !.nextId = @ + 1]
    /\ UNCHANGED <<gcVars, num, jit>>

\* selfReturn and stackReturn: the function returns to its caller
returnToCaller ==
    /\ vm.status = "run"
    /\ vm' = [vm EXCEPT !.chain = SubSeq(@, 1, Len(@) - 1),
                        !.status = IF Len(vm.chain) = 1 THEN "returned" ELSE "run"]
    /\ UNCHANGED <<gcVars, num, jit>>

\* the code emitted for blockReturn.  The target is loaded from
\* CreateGEP(jit.blockContext, 2), the address of the second TBlock after the
\* block object and not that of a field of it: what is there is not known.
\* emitBlockReturn(value, targetContext) throws.
emitBlockReturn ==
    /\ vm.status = "run"
    /\ Top.block # 0
    /\ \E targetContext \in 0 .. MaxContexts :
           vm' = [vm EXCEPT !.status = "unwind",
                            !.throw = [value |-> Top.id,
                                       creating |-> vm.blocks[Top.block].creatingContext,
                                       target |-> targetContext,
                                       chain |-> [i \in 1 .. Len(vm.chain) |-> vm.chain[i].id]]]
    /\ UNCHANGED <<gcVars, num, jit>>

\* The exception leaves the function on top and reaches the send its caller
\* waits in.  A call lets it pass.  An invoke takes it to the landing pad,
\* which compares its own context with the target: the same, it returns the
\* value to its caller; another, it goes to CreateResume(blockResult), whose
\* operand is not what the landing pad caught.  An invoke without a landing
\* pad has no place to go.
unwind ==
    /\ vm.status = "unwind"
    /\ Len(vm.chain) > 1
    /\ LET rest == SubSeq(vm.chain, 1, Len(vm.chain) - 1)
           caller == rest[Len(rest)]
       IN vm' = IF ~caller.invoke
                THEN [vm EXCEPT !.chain = rest]
                ELSE IF caller.landingPad /\ caller.id = vm.throw.target
                THEN [vm EXCEPT !.chain = SubSeq(rest, 1, Len(rest) - 1),
                                !.status = "returned",
                                !.delivered = [to |-> IF Len(rest) = 1 THEN 0
                                                      ELSE rest[Len(rest) - 1].id,
                                               value |-> vm.throw.value]]
                ELSE [vm EXCEPT !.chain = rest, !.status = "undefined"]
    /\ UNCHANGED <<gcVars, num, jit>>

\* out of the bottom context the exception reaches the caller of the
\* compiled code, which reports returnError
uncaught ==
    /\ vm.status = "unwind"
    /\ Len(vm.chain) = 1
    /\ vm' = [vm EXCEPT !.chain = <<>>, !.status = "error"]
    /\ UNCHANGED <<gcVars, num, jit>>

\* what may come of it: the process ends, the unwinding goes on, or some
\* context that is left takes the value as the reply of its send
undefinedOutcome ==
    /\ vm.status = "undefined"
    /\ \/ vm' = [vm EXCEPT !.status = "crashed"]
       \/ vm' = [vm EXCEPT !.status = "unwind"]
       \/ \E k \in 1 .. Len(vm.chain) :
              vm' = [vm EXCEPT !.chain = SubSeq(@, 1, k),
                               !.status = "returned",
                               !.delivered = [to |-> vm.chain[k].id,
                                              value |-> vm.throw.value]]
    /\ UNCHANGED <<gcVars, num, jit>>

NextBlockReturn ==
    \/ execute
    \/ sendMessage
    \/ createBlock
    \/ invokeBlock
    \/ returnToCaller
    \/ emitBlockReturn
    \/ unwind
    \/ uncaught
    \/ undefinedOutcome

SpecBlockReturn == Init /\ [][NextBlockReturn]_vars

\* ------------------------------------------------------------ method cache
\* Classes are 1 .. NumClasses, the parent of class c is c - 1 and 0 is nil;
\* vm.methods[c][selector] is the method in the dictionary of c, 0 for none.
\* lookupMethod walks the chain of parents.
RECURSIVE lookupMethod(_, _)
lookupMethod(selector, klass) ==
    IF klass = 0 THEN 0
    ELSE IF vm.methods[klass][selector] # 0 THEN vm.methods[klass][selector]
    ELSE lookupMethod(selector, klass - 1)

\* the entry of a selector and a class: their identities mixed, modulo the
\* size of the table
Hash(selector, klass) == (selector + klass) % CacheSize

\* the method of the entry when it is the entry of this selector and this
\* class, else null
lookupMethodInCache(selector, klass) ==
    LET entry == vm.m_lookupCache[Hash(selector, klass)]
    IN IF entry.methodName = selector /\ entry.receiverClass = klass
       THEN entry.method ELSE 0

flushMethodCache_butFirst(cache) ==
    [i \in DOMAIN cache |-> IF i = 0 THEN cache[i] ELSE EmptyEntry]

\* every entry is zeroed
flushMethodCache(cache) == [i \in DOMAIN cache |-> EmptyEntry]

\* a send looks in the cache; a miss calls lookupMethod and installs what
\* it found
cachedSend ==
    /\ \E selector \in 1 .. NumSelectors, klass \in 1 .. NumClasses :
           LET cached == lookupMethodInCache(selector, klass)
               method == IF cached # 0 THEN cached ELSE lookupMethod(selector, klass)
           IN vm' = [vm EXCEPT
                  !.m_lookupCache =
                      IF cached = 0 /\ method # 0
                      THEN [@ EXCEPT ![Hash(selector, klass)] =
                                [methodName |-> selector, receiverClass |-> klass,
                                 method |-> method]]
                      ELSE @,
                  !.sent = [op |-> "send", selector |-> selector, klass |-> klass,
                            method |-> method, hit |-> cached # 0,
                            first |-> <<selector, klass>> \notin vm.since,
                            old |-> IF /\ vm.sent.op = "changeMethod"
                                       /\ vm.sent.selector = selector
                                       /\ vm.sent.klass = klass
                                    THEN vm.sent.old ELSE 0],
                  !.since = @ \cup {<<selector, klass>>}]
    /\ UNCHANGED <<gcVars, num, jit>>

\* what a change of a dictionary leaves in vm.sent; old is the method the
\* cache held for the selector and the class before the change
Changed(selector, klass, method) ==
    [op |-> "changeMethod", selector |-> selector, klass |-> klass,
     method |-> method, hit |-> FALSE, first |-> FALSE,
     old |-> lookupMethodInCache(selector, klass)]

changeMethod_noFlush ==
    /\ \E klass \in 1 .. NumClasses, selector \in 1 .. NumSelectors,
          method \in 0 .. NumMethods :
           /\ vm.methods[klass][selector] # method
           /\ vm' = [vm EXCEPT !.methods[klass][selector] = method,
                               !.sent = Changed(selector, klass, method),
                               !.since = {}]
    /\ UNCHANGED <<gcVars, num, jit>>

\* the dictionary of a class gets a method for a selector, or loses it, and
\* the cache is flushed
changeMethod ==
    /\ \E klass \in 1 .. NumClasses, selector \in 1 .. NumSelectors,
          method \in 0 .. NumMethods :
           /\ vm.methods[klass][selector] # method
           /\ vm' = [vm EXCEPT !.methods[klass][selector] = method,
                               !.m_lookupCache = flushMethodCache(@),
                               !.sent = Changed(selector, klass, method),
                               !.since = {}]
    /\ UNCHANGED <<gcVars, num, jit>>

\* a collection moves the methods, and the dictionaries refer to them where
\* they are now; the table is no root and is not updated.  The collector
\* tells the machine, which flushes the cache.
onCollectionOccured ==
    /\ \E to \in [1 .. NumMethods -> 1 .. NumMethods] :
           /\ \A a, b \in 1 .. NumMethods : to[a] = to[b] => a = b
           /\ vm' = [vm EXCEPT
                  !.methods = [c \in 1 .. NumClasses |-> [sel \in 1 .. NumSelectors |->
                                  IF vm.methods[c][sel] = 0 THEN 0
                                  ELSE to[vm.methods[c][sel]]]],
                  !.m_lookupCache = flushMethodCache(@),
                  !.sent = [VmIdle.sent EXCEPT !.op = "collect"],
                  !.since = {}]
    /\ UNCHANGED <<gcVars, num, jit>>

NextCache ==
    \/ cachedSend
    \/ changeMethod
    \/ onCollectionOccured

SpecCache == Init /\ [][NextCache]_vars

\* ------------------------------------------------------------- interpreter
\* An object on an operand stack: an instance of a class, a symbol or an
\* array.  Symbols and arrays are of class 0, which has no method.
Value(klass, symbol, elements) ==
    [klass |-> klass, symbol |-> symbol, elements |-> elements]

\* the selector of the re-send
doesNotUnderstand == NumSelectors

\* the methods of the image: a send of selector 1 to a literal of the last
\* class or to the receiver, and the two returns
Programs ==
    {<<[op |-> "pushLiteral", low |-> NumClasses], [op |-> "markArguments", low |-> 1],
       [op |-> "sendMessage", low |-> 1], [op |-> "stackReturn", low |-> 0]>>,
     <<[op |-> "pushArgument", low |-> 0], [op |-> "markArguments", low |-> 1],
       [op |-> "sendMessage", low |-> 1], [op |-> "popTop", low |-> 0],
       [op |-> "selfReturn", low |-> 0]>>,
     <<[op |-> "pushArgument", low |-> 0], [op |-> "stackReturn", low |-> 0]>>}

\* a new context on top of the chain
Enter(process, contexts, receiver, method, arguments) ==
    [process EXCEPT !.contexts = Append(contexts,
        [method |-> method, bytePointer |-> 1, stack |-> <<>>,
         receiver |-> receiver, arguments |-> arguments])]

Send_noRetry(process, contexts, selector, arguments) ==
    LET receiver == arguments.elements[1]
        method == lookupMethod(selector, receiver.klass)
    IN IF method = 0
       THEN [process EXCEPT !.contexts = contexts, !.result = "returnBadMethod"]
       ELSE IF Len(contexts) >= MaxContexts
       THEN [process EXCEPT !.contexts = contexts, !.result = "returnError"]
       ELSE Enter(process, contexts, receiver, method, arguments.elements)

\* Send semantics: the class of the receiver, the lookup, the re-send with
\* doesNotUnderstand and the array of the selector and the arguments, the
\* new context.  The chain of contexts is bounded by MaxContexts here.
Send(process, contexts, selector, arguments) ==
    LET receiver == arguments.elements[1]
        method == lookupMethod(selector, receiver.klass)
        fallback == lookupMethod(doesNotUnderstand, receiver.klass)
    IN IF method = 0 /\ fallback = 0
       THEN [process EXCEPT !.contexts = contexts, !.result = "returnBadMethod"]
       ELSE IF Len(contexts) >= MaxContexts
       THEN [process EXCEPT !.contexts = contexts, !.result = "returnError"]
       ELSE IF method # 0
       THEN Enter(process, contexts, receiver, method, arguments.elements)
       ELSE Enter(process, contexts, receiver, fallback,
                  <<Value(0, selector, <<>>), arguments>>)

\* Return semantics: the value goes on the stack of the previous context,
\* or ends the execution when there is none
Return(process, value) ==
    LET n == Len(process.contexts)
    IN IF n = 1
       THEN [process EXCEPT !.contexts = <<>>, !.result = "returnReturned",
                            !.value = value]
       ELSE [process EXCEPT !.contexts =
                [SubSeq(@, 1, n - 1) EXCEPT ![n - 1].stack = Append(@, value)]]

\* one bytecode of the current context
Step(process) ==
    LET n == Len(process.contexts)
        context == process.contexts[n]
        instruction == vm.bodies[context.method + 1][context.bytePointer]
        stack == context.stack
        top == stack[Len(stack)]
        rest == SubSeq(stack, 1, Len(stack) - 1)
        next(newStack) == [process.contexts EXCEPT
                              ![n].bytePointer = @ + 1, ![n].stack = newStack]
    IN CASE instruction.op = "pushArgument" ->
                [process EXCEPT !.contexts = next(Append(stack, context.receiver))]
         [] instruction.op = "pushLiteral" ->
                [process EXCEPT !.contexts =
                    next(Append(stack, Value(instruction.low, 0, <<>>)))]
         [] instruction.op = "markArguments" ->
                [process EXCEPT !.contexts =
                    next(Append(SubSeq(stack, 1, Len(stack) - instruction.low),
                                Value(0, 0, SubSeq(stack, Len(stack) - instruction.low + 1,
                                                   Len(stack)))))]
         [] instruction.op = "sendMessage" ->
                Send(process, next(rest), instruction.low, top)
         [] instruction.op = "popTop" ->
                [process EXCEPT !.contexts = next(rest)]
         [] instruction.op = "selfReturn" -> Return(process, context.receiver)
         [] instruction.op = "stackReturn" -> Return(process, top)

RECURSIVE Execute_decrementFirst(_, _)
Execute_decrementFirst(process, ticks) ==
    IF ticks <= 1
    THEN [process |-> [process EXCEPT !.result = "returnTimeExpired"], steps |-> 0]
    ELSE LET stepped == Step([process EXCEPT !.result = "none"])
         IN IF stepped.result # "none"
            THEN [process |-> stepped, steps |-> 1]
            ELSE LET ran == Execute_decrementFirst(stepped, ticks - 1)
                 IN [ran EXCEPT !.steps = @ + 1]

\* execute(process, ticks): bytecodes are executed, one tick each, until the
\* ticks are used up or the execution ends
RECURSIVE Execute(_, _)
Execute(process, ticks) ==
    IF ticks = 0
    THEN [process |-> [process EXCEPT !.result = "returnTimeExpired"], steps |-> 0]
    ELSE LET stepped == Step([process EXCEPT !.result = "none"])
         IN IF stepped.result # "none"
            THEN [process |-> stepped, steps |-> 1]
            ELSE LET ran == Execute(stepped, ticks - 1)
                 IN [ran EXCEPT !.steps = @ + 1]

\* an image is loaded: the dictionaries of the classes, the bytecodes of the
\* methods, and a process that is to run the initial method
loadImage ==
    /\ ~vm.ran.loaded
    /\ \E methods \in [1 .. NumClasses -> [1 .. NumSelectors -> 0 .. NumMethods]],
          bodies \in [1 .. NumMethods + 1 -> Programs],
          klass \in 1 .. NumClasses :
           vm' = [vm EXCEPT
                  !.methods = methods,
                  !.bodies = bodies,
                  !.process = Enter(vm.process, <<>>, Value(klass, 0, <<>>), 0,
                                    <<Value(klass, 0, <<>>)>>),
                  !.ran = [ticks |-> 0, steps |-> 0, loaded |-> TRUE]]
    /\ UNCHANGED <<gcVars, num, jit>>

\* the outer program calls execute with some ticks
executeTicks ==
    /\ vm.ran.loaded
    /\ vm.process.result \in {"none", "returnTimeExpired"}
    /\ \E ticks \in 0 .. MaxTicks :
           LET ran == Execute(vm.process, ticks)
           IN vm' = [vm EXCEPT !.process = ran.process,
                               !.ran = [ticks |-> ticks, steps |-> ran.steps,
                                        loaded |-> TRUE]]
    /\ UNCHANGED <<gcVars, num, jit>>

NextInterpreter ==
    \/ loadImage
    \/ executeTicks

SpecInterpreter == Init /\ [][NextInterpreter]_vars

\* ------------------------------------------------------------------ claims
CurYoung(x) == isInYoungHeap(MM, x)
OldSlot(slot) == ~CurYoung(slot) /\ ~isInStaticHeap(slot)
OldObjects == {o \in DOMAIN heap : OldSlot(SlotOf(o))}
\* the occupied part of the old generation
InOldData(a) == a >= m_inactiveHeapPointer /\ a < m_heapTwo + m_heapSize \div 2

\* C1: between operations, every old non-static slot whose value lies in the
\* young heap is listed in the crossgen list exactly once.
C1_CrossgenExactlyOnce ==
    pc = "run" =>
        \A o \in OldObjects :
            CurYoung(heap[o][1]) => Count(m_crossGenerationalReferences, SlotOf(o)) = 1

\* C2: an assignInstance that stored a young value into an old slot whose
\* prior value was not young leaves the slot's address in the crossgen list.
C2_AssignInstanceRegistersSlot ==
    (/\ last.op = "assignInstance"
     /\ OldSlot(last.slot)
     /\ CurYoung(last.value)
     /\ ~CurYoung(last.prev))
    => InList(m_crossGenerationalReferences, last.slot)

\* C3: right after a young collection the crossgen list is empty, heap one is
\* empty with its bump pointer at m_heapOne + heapSize/2, and heap one is the
\* active, heap two the inactive half.
C3_YoungCollectionResets ==
    last.op = "collectLeftToRight" =>
        /\ m_crossGenerationalReferences = <<>>
        /\ m_activeHeapPointer = m_heapOne + m_heapSize \div 2
        /\ m_activeHeapBase = m_heapOne
        /\ m_inactiveHeapBase = m_heapTwo
        /\ \A o \in DOMAIN heap : ~InHeapOne(o)

\* a young collection that found the crossgen list filled and moved a survivor
C3_Witness ==
    /\ last.op = "collectLeftToRight"
    /\ last.cg # <<>>
    /\ m_inactiveHeapPointer < m_heapTwo + m_heapSize \div 2

\* C4: a slot of an old object that received a young object by assignInstance
\* holds, after the next young collection, the address of an object of the old
\* generation, and the crossgen list does not contain the slot.
C4_StoredYoungIsPromoted ==
    last.op = "collectLeftToRight" =>
        \A s \in barriered :
            /\ heap[ObjOf(s)][1] \in DOMAIN heap
            /\ InOldData(heap[ObjOf(s)][1])
            /\ ~InList(m_crossGenerationalReferences, s)

\* C5: when collectGarbage has returned, every slot of every object reachable
\* from a registered root holds a small integer, a static address or an
\* address inside heap two, the half that now holds the live data.
C5_ReachableSlotsValid ==
    last.op = "collectGarbage" =>
        \A o \in Reachable(MM) :
            LET v == heap[o][1]
            IN IsSmallInteger(v) \/ isInStaticHeap(v) \/ (InHeapTwo(v) /\ InOldData(v))

\* C6: collectGarbage runs the full collection exactly when the free space of
\* the old half, measured after the young collection, is below heapSize/8.
C6_FullIffBelowThreshold ==
    last.op = "collectGarbage" => (last.full <=> last.free < m_heapSize \div 8)

\* C7: after a full collection every object lies in heap two, heap one is
\* empty with its bump pointer at the top, and the old bump pointer marks
\* exactly the live objects, all of them copied back.
C7_FullCollectionCompacts ==
    (last.op = "collectGarbage" /\ last.full) =>
        /\ \A o \in DOMAIN heap \ {globalObject} : InHeapTwo(o) /\ InOldData(o)
        /\ m_activeHeapPointer = m_heapOne + m_heapSize \div 2
        /\ DOMAIN heap = Reachable(MM) \cup {globalObject}
        /\ Cardinality(DOMAIN heap \ {globalObject}) = last.live
        /\ m_heapTwo + m_heapSize \div 2 - m_inactiveHeapPointer = ObjSize * last.live

\* a full collection that had live objects to copy
C7_Witness == last.op = "collectGarbage" /\ last.full /\ last.live > 0

\* the barrier was called directly for an old, non-static slot
BarrierOnOldSlot == last.op = "checkRoot" /\ OldSlot(last.slot)

\* C8: checkRoot for an old slot, a young value and a prior value that is not
\* young puts the slot's address at the front of the crossgen list and
\* returns true.
C8_YoungValueAdds ==
    (BarrierOnOldSlot /\ CurYoung(last.value) /\ ~CurYoung(last.prev)) =>
        /\ m_crossGenerationalReferences = <<last.slot>> \o last.cg
        /\ last.ret

C8_Witness == BarrierOnOldSlot /\ CurYoung(last.value) /\ ~CurYoung(last.prev)

\* C9: checkRoot for an old slot, a value that is not young and a young prior
\* value leaves a crossgen list that does not contain the slot's address.
C9_RemovalLeavesNone ==
    (BarrierOnOldSlot /\ ~CurYoung(last.value) /\ CurYoung(last.prev)) =>
        ~InList(m_crossGenerationalReferences, last.slot)

\* C10: checkRoot for a young slot, for a static slot, or for an old slot
\* whose value and prior value are both young or both not young leaves the
\* crossgen list as it was.
C10_OtherCasesKeepList ==
    (/\ last.op = "checkRoot"
     /\ \/ CurYoung(last.slot)
        \/ isInStaticHeap(last.slot)
        \/ CurYoung(last.value) = CurYoung(last.prev))
    => m_crossGenerationalReferences = last.cg

\* the barrier was called for a slot of a young object with a young value
\* replacing one that is not young
C10_Witness ==
    /\ last.op = "checkRoot"
    /\ CurYoung(last.slot)
    /\ CurYoung(last.value)
    /\ ~CurYoung(last.prev)

\* an address of one of the two generations, as opposed to a small integer or
\* an address of the static heap
InGenerations(x) == ~IsSmallInteger(x) /\ ~isInStaticHeap(x)

\* C11: after an assignInstance that wrote a reference R of one of the two
\* generations into slot S of a non-static object O, O and R are of the same
\* generation or the crossgen list contains the address of S.
C11_WriteKeepsGenerationsOrListed ==
    (/\ last.op = "assignInstance"
     /\ InGenerations(last.slot)
     /\ InGenerations(last.value))
    => \/ CurYoung(last.slot) = CurYoung(last.value)
       \/ InList(m_crossGenerationalReferences, last.slot)

\* C12: two root slots that held the same value before a collection hold the
\* same value after it, and two that held different values hold different
\* values: for the external pointers, the static roots and the crossgen slots
\* across the young collection, and for the external pointers and the static
\* roots across the whole of collectGarbage.
C12_CollectionPreservesAliasing ==
    /\ last.op = "collectLeftToRight" =>
           LET post == RootSlotValues(MM, last.cg)
           IN \A i, j \in 1 .. Len(last.roots) :
                  (last.roots[i] = last.roots[j]) <=> (post[i] = post[j])
    /\ last.op = "collectGarbage" =>
           LET post == RootSlotValues(MM, <<>>)
           IN \A i, j \in 1 .. Len(post) :
                  (last.roots[i] = last.roots[j]) <=> (post[i] = post[j])

\* C13: after a young collection and after collectGarbage every static root
\* refers to a static address or to an object where it now lies, and the
\* chain of slot values that starts at the root reads as before the
\* collection, up to the new addresses of the objects.
C13_StaticRootObjectPreserved ==
    last.op \in {"collectLeftToRight", "collectGarbage"} =>
        /\ StaticRootShape(MM) = last.shape
        /\ \A i \in 1 .. Len(m_staticRoots) :
               LET v == ReadSlot(MM, m_staticRoots[i])
               IN isInStaticHeap(v) \/ (v \in DOMAIN heap /\ InOldData(v))

\* the state in which collectLeftToRight starts to move objects: heap two
\* receives, heap one is evacuated
BeginLeftToRight(m) ==
    [m EXCEPT !.ab = m_heapTwo, !.ib = m_heapOne, !.ahp = m.ihp, !.ihp = m.ahp]

\* C14: a young collection makes one copy of every young object it has to
\* keep, however many roots and slots lead to it, and when a collection is
\* about to start, moving any young object a second time returns the address
\* the first move returned and changes nothing.
C14_MoveObjectIdempotent ==
    /\ last.op = "collectLeftToRight" =>
           last.oldTop - m_inactiveHeapPointer = ObjSize * last.young
    /\ pc = "collect" =>
           \A p \in {o \in DOMAIN heap : CurYoung(o)} :
               LET first == moveObject(p, BeginLeftToRight(MM))
                   second == moveObject(p, first.mm)
               IN second.obj = first.obj /\ second.mm = first.mm

\* a young collection moved an object that two of its root slots held
C14_Witness ==
    /\ last.op = "collectLeftToRight"
    /\ last.young > 0
    /\ LET post == RootSlotValues(MM, last.cg)
       IN \E i, j \in 1 .. Len(post) :
              /\ i # j
              /\ last.roots[i] = last.roots[j]
              /\ post[i] # last.roots[i]
              /\ post[i] = post[j]

\* C15: checkRoot called with a small integer as the value leaves the crossgen
\* list as it was, and a young collection passes no small integer to
\* moveObject.
C15_SmallIntegerNeverReference ==
    /\ (last.op = "checkRoot" /\ IsSmallInteger(last.value)) =>
           m_crossGenerationalReferences = last.cg
    /\ last.op = "collectLeftToRight" => last.ints = {}

\* C16: for every word p whose low bit is 1, newInteger(getIntegerValue(p))
\* is p.
C16_DecodeEncodeRoundTrip ==
    num.op = "getIntegerValue" => num.back = num.arg

\* a small integer with the top bit set went through the round trip
C16_Witness ==
    /\ num.op = "getIntegerValue"
    /\ num.arg >= WordModulus \div 2
    /\ num.back = num.arg

\* C17: for every n of the signed range one bit narrower than a word,
\* negative n included, getIntegerValue(newInteger(n)) is n, the two compared
\* as words.
C17_EncodeDecodeRoundTrip ==
    num.op = "newInteger" => ToWord(num.back) = ToWord(num.arg)

\* a sequence is the beginning of another
IsPrefix(short, long) ==
    Len(short) <= Len(long) /\ SubSeq(long, 1, Len(short)) = short

\* C18: every instruction is decoded to the opcode and argument the method
\* was written with, at the offset where it starts, one byte for the short
\* and two for the extended form; the scanning pass and the emitting pass
\* decode the same instructions at the same offsets, in the method and in
\* every block body.
C18_DecodingAgrees ==
    jit.phase \in {"write", "done"} =>
        /\ jit.contexts[1].scanned = Listing(jit.method, 0)
        /\ IsPrefix(jit.contexts[1].written, Listing(jit.method, 0))
        /\ \A i \in 1 .. Len(jit.closed) : jit.closed[i].written = jit.closed[i].scanned
        /\ jit.phase = "done" => jit.contexts[1].written = jit.contexts[1].scanned

\* a method was compiled to its end that holds a block whose body is an
\* extended instruction, with another instruction after the block
C18_Witness ==
    /\ jit.phase = "done"
    /\ Len(jit.closed) = 2
    /\ \E i \in 1 .. Len(jit.method) - 1 :
           /\ jit.method[i].form = "block"
           /\ jit.method[i].body[1].form = "extended"

\* C19: pushConstant with argument 0..9 pushes the small integer
\* newInteger(argument), with 10, 11, 12 nil, true, false; the value is on top
\* of the stack and below it the stack is as before.
C19_PushConstantPushesOne ==
    (jit.phase = "write" /\ jit.step.op = "doPushConstant" /\ jit.step.low <= falseConst) =>
        LET low == jit.step.low
            expected == IF low <= 9 THEN SmallInt(newInteger(low))
                        ELSE IF low = 10 THEN Object("nil")
                        ELSE IF low = 11 THEN Object("true")
                        ELSE Object("false")
        IN Current.valueStack = Append(jit.step.before, expected)

\* false was pushed on a stack that was not empty
C19_Witness ==
    /\ jit.phase = "write"
    /\ jit.step.op = "doPushConstant"
    /\ jit.step.low = falseConst
    /\ jit.step.before # <<>>
    /\ lastValue(Current) = Object("false")

\* the value a small integer encodes: the bits above the tag, signed
SmallValue(word) ==
    LET upper == word \div 2
    IN IF upper >= WordModulus \div 4 THEN upper - WordModulus \div 2 ELSE upper

\* C20: sendBinary takes the right operand from the top and the left one
\* from below it and pushes one result in their place: for two small
\* integers true or false for left < right (0) and left <= right (1) and the
\* small integer left + right (2), otherwise the reply of the binary selector
\* sent with the array (left, right).
C20_SendBinaryResult ==
    (jit.phase = "write" /\ jit.step.op = "doSendBinary") =>
        LET before == jit.step.before
            right == before[Len(before)]
            left == before[Len(before) - 1]
            result == lastValue(Current)
        IN /\ Current.valueStack = Append(SubSeq(before, 1, Len(before) - 2), result)
           /\ IF isSmallInt(left) /\ isSmallInt(right)
              THEN LET l == SmallValue(left.word)
                       r == SmallValue(right.word)
                   IN CASE jit.step.low = 0 -> result = Bool(l < r)
                        [] jit.step.low = 1 -> result = Bool(l <= r)
                        [] jit.step.low = 2 ->
                             isSmallInt(result) /\ SmallValue(result.word) = l + r
              ELSE result = Reply(jit.step.low, <<left, right>>)

\* C21: sendBinary + on two small integers whose sum is outside the range of
\* a small integer never pushes a small integer that denotes another value
\* than the sum of the operands.
C21_SumNeverWraps ==
    (jit.phase = "write" /\ jit.step.op = "doSendBinary" /\ jit.step.low = 2) =>
        LET before == jit.step.before
            right == before[Len(before)]
            left == before[Len(before) - 1]
            result == lastValue(Current)
        IN (isSmallInt(left) /\ isSmallInt(right)) =>
               LET sum == SmallValue(left.word) + SmallValue(right.word)
               IN (sum \notin SmallValues /\ isSmallInt(result)) =>
                      SmallValue(result.word) = sum

\* C22: markArguments with argument low pops exactly low values and pushes
\* one array of size low: the value that was on top is at index low - 1, the
\* value popped last at index 0; the values below stay and the depth of the
\* stack changes by 1 - low.
C22_MarkArgumentsBuildsArray ==
    (jit.phase = "write" /\ jit.step.op = "doMarkArguments") =>
        LET low == jit.step.low
            before == jit.step.before
            n == Len(before)
            array == lastValue(Current)
        IN /\ Len(Current.valueStack) = n + 1 - low
           /\ SubSeq(Current.valueStack, 1, n - low) = SubSeq(before, 1, n - low)
           /\ array.kind = "array"
           /\ Len(array.elements) = low
           /\ \A i \in 0 .. low - 1 : array.elements[i + 1] = before[n - low + 1 + i]

\* two different values were made into an array of two
C22_Witness ==
    /\ jit.phase = "write"
    /\ jit.step.op = "doMarkArguments"
    /\ jit.step.low = 2
    /\ jit.step.before[1] # jit.step.before[2]
    /\ lastValue(Current).elements = jit.step.before

\* the instruction of the method that starts at offset
InstructionAt(offset) ==
    LET k == CHOOSE j \in 1 .. Len(jit.method) :
                 Len(Assemble(SubSeq(jit.method, 1, j - 1), 0)) = offset
    IN jit.method[k]

\* C23: branchIfTrue (branchIfFalse) reads the two byte target, low byte
\* first, pops exactly one value, the condition, and the emitted code goes to
\* the target when the condition is the object true (false) and otherwise to
\* the code of the instruction that follows the operand; the block it goes to
\* for the target is the one that holds the code of the instruction at the
\* target.
C23_ConditionalBranch ==
    /\ (jit.phase = "write" /\ jit.step.op = "doSpecial"
            /\ jit.step.low \in {branchIfTrue, branchIfFalse}) =>
           LET code == jit.step.code
               before == jit.step.before
           IN /\ code.op = "condbr"
              /\ code.target = InstructionAt(jit.step.offset).target
              /\ Current.valueStack = SubSeq(before, 1, Len(before) - 1)
              /\ code.value = before[Len(before)]
              /\ code.equal = IF jit.step.low = branchIfTrue THEN Object("true")
                              ELSE Object("false")
              /\ code.skip = jit.step.offset + 3
              /\ Current.bytePointer = code.skip
              /\ Current.insert.label = "branchSkip" /\ Current.insert.at = code.skip
    /\ jit.phase \in {"write", "done"} =>
           \A i \in 1 .. Len(jit.closed) :
               jit.closed[i].branches \subseteq jit.closed[i].linked

\* C24: pushBlock reads the two byte target, low byte first, and pushes
\* exactly one block: its creating context is the current context, its
\* argument offset is low and its byte pointer is the offset of the first
\* byte after the operand; the enclosing method goes on at the target and no
\* instruction of the body is compiled as part of the enclosing function.
C24_PushBlock ==
    (jit.phase = "write" /\ jit.step.op = "doPushBlockEnd") =>
        LET offset == jit.step.offset
            body == Assemble(InstructionAt(offset).body, 0)
            target == offset + 3 + Len(body)
            block == lastValue(Current)
        IN /\ Current.valueStack = Append(jit.step.before, block)
           /\ block.kind = "block"
           /\ block.creatingContext = Current.function
           /\ block.argOffset = jit.step.low
           /\ block.bytePointer = offset + 3
           /\ Current.bytePointer = target
           /\ target \in jit.jumps
           /\ \A p \in jit.placed :
                  (offset < p.offset /\ p.offset < target) => p.function # Current.function

\* a block was pushed on a stack that was not empty, and the method goes on
\* after the body
C24_Witness ==
    /\ jit.phase = "write"
    /\ jit.step.op = "doPushBlockEnd"
    /\ Len(jit.contexts) = 1
    /\ jit.step.before # <<>>
    /\ Current.bytePointer < Current.stopPointer
    /\ \E p \in jit.placed : p.offset > jit.step.offset

\* C25: assignTemporary and assignInstance leave the operand stack as it is
\* and change only element low of the temporaries, respectively of the
\* receiver's fields, which becomes the value on top of the stack.
C25_AssignKeepsStack ==
    [][(jit.phase = "write" /\ jit'.phase = "write"
            /\ jit'.step.op \in {"doAssignTemporary", "doAssignInstance"}) =>
           LET old == jit.contexts[Len(jit.contexts)]
               new == jit'.contexts[Len(jit'.contexts)]
               low == jit'.step.low
               top == old.valueStack[Len(old.valueStack)]
           IN /\ new.valueStack = old.valueStack
              /\ IF jit'.step.op = "doAssignTemporary"
                 THEN /\ new.temporaries = [old.temporaries EXCEPT ![low] = top]
                      /\ new.selfFields = old.selfFields
                 ELSE /\ new.selfFields = [old.selfFields EXCEPT ![low] = top]
                      /\ new.temporaries = old.temporaries]_vars

\* the small integer on the stack was stored into the last temporary and
\* then into the last field of the receiver; the first field is as it was
C25_Witness ==
    /\ jit.phase = "write"
    /\ jit.step.op = "doAssignInstance"
    /\ jit.step.low = NumSlots - 1
    /\ Len(Current.valueStack) = 1
    /\ isSmallInt(lastValue(Current))
    /\ Current.selfFields[NumSlots - 1] = lastValue(Current)
    /\ Current.temporaries[NumSlots - 1] = lastValue(Current)
    /\ Current.selfFields[0] = Object("nil")

\* C28: once an instruction whose opcode is none of 1..14 was met, the
\* compilation of the method ends with an error: no instruction after it is
\* handled and compileMethod does not come back with a function.
C28_InvalidOpcodeIsFatal ==
    (jit.phase \in {"write", "done"} /\ jit.invalid # <<>>) =>
        /\ \A p \in jit.placed : p.offset <= jit.invalid[1]
        /\ jit.phase # "done"

\* a well-formed method: every opcode is defined, every branch aims at the
\* start of an instruction, the stack never underflows, no block body is
\* empty, and the last instruction is a return
WellFormed(method) ==
    /\ \A k \in 1 .. Len(method) : method[k].high \in 1 .. 14
    /\ method[Len(method)].high = opDoSpecial
    /\ method[Len(method)].form = "short"
    /\ method[Len(method)].low \in {selfReturn, stackReturn}

\* C29: while a well-formed method is compiled, every index at which the
\* bytecode array is read (instruction bytes, argument bytes of the extended
\* form, both bytes of the operand of a branch or a pushBlock) and every
\* offset a branch or a pushBlock goes to lies in 0 .. Len(byteCodes) - 1.
C29_BytePointerInRange ==
    (jit.phase \in {"write", "done"} /\ WellFormed(jit.method)) =>
        \A bp \in jit.reads \cup jit.jumps : 0 <= bp /\ bp < Len(jit.byteCodes)

\* a well-formed method with a block and a branch was compiled to its end
C29_Witness ==
    /\ jit.phase = "done"
    /\ WellFormed(jit.method)
    /\ Len(jit.closed) = 2
    /\ Cardinality(jit.jumps) = 2
    /\ Len(jit.byteCodes) - 1 \in jit.reads


\* the contexts on the chain when the blockReturn threw
ThrowChain == {vm.throw.chain[i] : i \in 1 .. Len(vm.throw.chain)}

\* the context the creating context was entered from, 0 for the caller of
\* execute
CreatingPrevious ==
    LET i == CHOOSE i \in 1 .. Len(vm.throw.chain) : vm.throw.chain[i] = vm.throw.creating
    IN IF i = 1 THEN 0 ELSE vm.throw.chain[i - 1]

\* C26: a blockReturn of a block whose creating context is on the chain
\* unwinds the contexts above the creating context, and no other; nothing
\* goes undefined on the way, and it ends with the value returned by the
\* creating context to its own caller.
C26_BlockReturnReachesCreatingContext ==
    (vm.throw.creating \in ThrowChain) =>
        /\ vm.status \in {"unwind", "returned"}
        /\ vm.status = "unwind" =>
               \E i \in 1 .. Len(vm.chain) : vm.chain[i].id = vm.throw.creating
        /\ vm.status = "returned" =>
               vm.delivered = [to |-> CreatingPrevious, value |-> vm.throw.value]

\* C27: a blockReturn of a block whose creating context has returned ends
\* as an error reported to the caller of execute: the value is returned to
\* no context and nothing goes undefined.
C27_TargetGoneIsError ==
    (vm.throw.chain # <<>> /\ vm.throw.creating \notin ThrowChain) =>
        vm.status \in {"unwind", "error"}

C31_FlushEmptiesCache ==
    /\ vm.sent.op \in {"changeMethod", "collect"} =>
           \A i \in 0 .. CacheSize - 1 : vm.m_lookupCache[i] = EmptyEntry
    /\ (vm.sent.op = "send" /\ vm.sent.first) =>
           /\ ~vm.sent.hit
           /\ vm.sent.method = lookupMethod(vm.sent.selector, vm.sent.klass)
    /\ (vm.sent.op = "send" /\ vm.sent.old # 0
            /\ vm.methods[vm.sent.klass][vm.sent.selector] # 0) =>
           vm.sent.method = vm.methods[vm.sent.klass][vm.sent.selector]

\* a send whose method was in the cache, then redefined in the class of
\* the receiver: the send gets the new method
C31_Witness ==
    /\ vm.sent.op = "send"
    /\ vm.sent.old # 0
    /\ vm.sent.method # 0
    /\ vm.sent.method # vm.sent.old
    /\ vm.sent.method = vm.methods[vm.sent.klass][vm.sent.selector]

\* the process can go on: it has a context and did not end
Live == vm.process.contexts # <<>> /\ vm.process.result \in {"none", "returnTimeExpired"}

\* C32: for 0 < k < n, execute with k ticks that returns timeExpired and
\* then execute with n - k ticks leave the process and the result that
\* execute with n ticks leaves; a call that returns timeExpired has executed
\* as many bytecodes as it had ticks.
C32_TicksResumable ==
    Live =>
        \A n \in 2 .. MaxTicks : \A k \in 1 .. n - 1 :
            LET first == Execute(vm.process, k)
            IN first.process.result = "returnTimeExpired" =>
                   /\ first.steps = k
                   /\ Execute(first.process, n - k).process = Execute(vm.process, n).process
                   /\ first.steps + Execute(first.process, n - k).steps
                          = Execute(vm.process, n).steps

\* a call with fewer ticks than the largest budget that ran out in a method
\* entered by a send, with the process resumed from there afterwards
C32_Witness ==
    /\ vm.process.result = "returnTimeExpired"
    /\ vm.ran.ticks \in 1 .. MaxTicks - 1
    /\ vm.ran.steps = vm.ran.ticks
    /\ Len(vm.process.contexts) > 1
    /\ Execute(vm.process, MaxTicks).process.result = "returnReturned"

\* C33: a selfReturn or a stackReturn that can be reached (the instruction
\* before it in its block is no terminator) makes the function return: the
\* receiver for selfReturn, the value on top of the stack for stackReturn,
\* which is what the sender gets as the value of its send.
C33_ReturnGivesValue ==
    [][(jit.phase = "write" /\ jit'.phase = "write"
            /\ jit'.step.op = "doSpecial"
            /\ jit'.step.low \in {selfReturn, stackReturn}
            /\ (Current.insert.empty \/ ~Current.insert.terminator)
            /\ (jit'.step.low = stackReturn => Current.valueStack # <<>>)) =>
           /\ jit'.step.code.op = "ret"
           /\ jit'.step.code.value =
                  IF jit'.step.low = selfReturn THEN jit.arguments[1]
                  ELSE Current.valueStack[Len(Current.valueStack)]]_vars

\* C34: a send whose selector no class of the receiver's chain has is sent
\* again, once, with doesNotUnderstand and the array of the selector and
\* the arguments; execute returns badMethod when that lookup fails too, and
\* only then.
C34_DoesNotUnderstand ==
    (Live /\ Len(vm.process.contexts) < MaxContexts) =>
        LET n == Len(vm.process.contexts)
            context == vm.process.contexts[n]
            instruction == vm.bodies[context.method + 1][context.bytePointer]
            arguments == context.stack[Len(context.stack)]
            receiver == arguments.elements[1]
            found == lookupMethod(instruction.low, receiver.klass)
            fallback == lookupMethod(doesNotUnderstand, receiver.klass)
            after == Execute(vm.process, 1).process
            entered == after.contexts[n + 1]
        IN instruction.op = "sendMessage" =>
             /\ after.result = "returnBadMethod" <=> (found = 0 /\ fallback = 0)
             /\ found # 0 =>
                    /\ Len(after.contexts) = n + 1
                    /\ entered.method = found
                    /\ entered.arguments = arguments.elements
             /\ (found = 0 /\ fallback # 0) =>
                    /\ Len(after.contexts) = n + 1
                    /\ entered.method = fallback
                    /\ entered.receiver = receiver
                    /\ entered.arguments =
                           <<[klass |-> 0, symbol |-> instruction.low, elements |-> <<>>],
                             arguments>>

\* the method of doesNotUnderstand runs for a selector the class of the
\* receiver does not have, entered from a method that was itself entered
\* by a send
C34_Witness ==
    /\ Len(vm.process.contexts) > 2
    /\ LET entered == vm.process.contexts[Len(vm.process.contexts)]
       IN /\ Len(entered.arguments) = 2
          /\ entered.arguments[1].symbol = 1
          /\ lookupMethod(1, entered.receiver.klass) = 0
          /\ entered.method = lookupMethod(doesNotUnderstand, entered.receiver.klass)

C36_CopiesStayInsideHalves ==
    /\ m_inactiveHeapPointer >= m_heapTwo
    /\ m_activeHeapPointer >= m_heapOne
    /\ \A o \in DOMAIN heap : isInStaticHeap(o) \/ InHeapOne(o) \/ InHeapTwo(o)

\* C37: the function compiled for a method whose sends are invokes, as they
\* are when its bytecodes hold a blockReturn, has the landing pad the
\* invokes name.
C37_LandingPadBeforeSends ==
    \A i \in 1 .. Len(vm.chain) :
        (vm.chain[i].block = 0 /\ vm.chain[i].invoke) => vm.chain[i].landingPad

\* C38: while the body of a block is compiled, the instructions scanned and
\* the instructions written for it start inside the body, before the target
\* of the pushBlock; when the body is done they are the instructions of the
\* body, none for a body without bytecodes, and the enclosing method goes on
\* at the target.
C38_BlockBodyRange ==
    /\ jit.phase = "write" =>
           \A i \in 2 .. Len(jit.contexts) :
               LET target == jit.contexts[i - 1].newBytePointer
                   body == jit.contexts[i]
               IN /\ \A k \in 1 .. Len(body.scanned) : body.scanned[k].offset < target
                  /\ \A k \in 1 .. Len(body.written) : body.written[k].offset < target
    /\ (jit.phase = "write" /\ jit.step.op = "doPushBlockEnd" /\ Len(jit.contexts) = 1) =>
           LET offset == jit.step.offset
               body == InstructionAt(offset).body
               block == jit.closed[Len(jit.closed)]
           IN /\ block.scanned = Listing(body, offset + 3)
              /\ block.written = Listing(body, offset + 3)
              /\ Current.bytePointer = offset + 3 + Len(Assemble(body, 0))

\* C39: when no collectGarbage is under way m_collectionsCount is the number
\* of calls made, m_rightToLeftCollections the number of calls whose threshold
\* check succeeded, and m_leftToRightCollections their sum; no step makes a
\* counter smaller.
C39_CountersConsistent ==
    /\ [](pc \in {"run", "retry"} =>
              /\ stat.m_collectionsCount = stat.called
              /\ stat.m_rightToLeftCollections = stat.succeeded
              /\ stat.m_leftToRightCollections =
                     stat.m_collectionsCount + stat.m_rightToLeftCollections)
    /\ [][/\ stat'.m_collectionsCount >= stat.m_collectionsCount
          /\ stat'.m_leftToRightCollections >= stat.m_leftToRightCollections
          /\ stat'.m_rightToLeftCollections >= stat.m_rightToLeftCollections]_vars

\* two calls have returned, one with a full collection and one without
C39_Witness ==
    /\ pc = "run"
    /\ stat.m_collectionsCount >= 2
    /\ stat.m_rightToLeftCollections >= 1
    /\ stat.m_rightToLeftCollections < stat.m_collectionsCount

\* C40: collectLeftToRight() of collectGarbage leaves every object of the old
\* generation where it is, copies no more objects than the young range
\* holds, and leaves every external pointer and every slot of an old or
\* static object whose value is outside the occupied young range as it is;
\* a slot with a value inside the range is rewritten only if it is a listed
\* crossgen slot or a static root.
C40_OldObjectsStay ==
    [][pc = "collect" =>
          /\ \A o \in DOMAIN heap :
                 (InOldData(o) \/ isInStaticHeap(o)) =>
                     /\ o \in DOMAIN heap'
                     /\ ~CurYoung(heap[o][1]) => heap'[o] = heap[o]
                     /\ (\A i \in 1 .. Len(m_crossGenerationalReferences) :
                             m_crossGenerationalReferences[i] # SlotOf(o))
                          /\ (\A i \in 1 .. Len(m_staticRoots) : m_staticRoots[i] # SlotOf(o))
                          => heap'[o] = heap[o]
          /\ \A e \in Externals : ~CurYoung(ext[e]) => ext'[e] = ext[e]
          /\ m_inactiveHeapPointer - m_inactiveHeapPointer' <=
                 ObjSize * Cardinality({o \in DOMAIN heap : CurYoung(o)})]_vars

\* a young collection has promoted an object while the old generation held
\* objects already, one of them referred to by an external pointer
C40_Witness ==
    /\ last.op = "collectLeftToRight"
    /\ last.oldTop < m_heapTwo + m_heapSize \div 2
    /\ m_inactiveHeapPointer < last.oldTop
    /\ m_inactiveHeapPointer >= m_heapTwo
    /\ \E e \in Externals : ext[e] >= last.oldTop /\ InHeapTwo(ext[e])
====
